---- MODULE Spec2Model ----
(***************************************************************************)
(* A model of the micro-blog front end (src/App.tsx and its variants        *)
(* src/unnamed/part_002 and src/unnamed/part_003): the content fetch with   *)
(* its polling, the search / sort / paginate pipeline and the view state.   *)
(*                                                                         *)
(* Text is a sequence of one-character strings, so that toLowerCase, trim   *)
(* and includes are computed character by character.  A publication date    *)
(* is a string that new Date(...) either parses or not (ParseJSDate);     *)
(* time stamps are counted in days since 1970-01-01.                        *)
(***************************************************************************)
EXTENDS Integers, Sequences, FiniteSets, TLC

\* ------------------------------------------------------------------ bounds
MaxLen      == 3    \* longest enumerated post list of the pipeline specification
MaxFetches  == 2    \* fetches started in one behaviour, the initial one included
MaxInFlight == 2    \* fetches in flight at once
MaxJobs     == 3    \* handler calls of Dashboard started in one behaviour
MaxSubmits  == 3    \* submissions of the login form in one behaviour
MaxShares   == 3    \* calls of handleShare started in one behaviour

\* --------------------------------------------------------------- constants
POSTS_PER_PAGE == 6
DEFAULT_READ_TIME == 5

\* -------------------------------------------------------------------- text
Min(S) == CHOOSE x \in S : \A y \in S : x <= y
Max(S) == CHOOSE x \in S : \A y \in S : x >= y

\* String.prototype.toLowerCase, one code unit at a time
toLowerChar(c) ==
  CASE c = "A" -> "a"
    [] c = "B" -> "b"
    [] c = "U" -> "u"
    [] c = "P" -> "p"
    [] OTHER   -> c

toLowerCase(s) == [i \in 1..Len(s) |-> toLowerChar(s[i])]

IsSpace(c) == c \in {" ", "\n"}

\* String.prototype.trim
trim(s) ==
  LET keep == {i \in 1..Len(s) : ~IsSpace(s[i])}
  IN  IF keep = {} THEN <<>> ELSE SubSeq(s, Min(keep), Max(keep))

\* String.prototype.indexOf, zero-based, -1 when absent
indexOf(s, q) ==
  LET at == {i \in 0..(Len(s) - Len(q)) : SubSeq(s, i + 1, i + Len(q)) = q}
  IN  IF at = {} THEN -1 ELSE Min(at)

\* String.prototype.includes
includes(s, q) == indexOf(s, q) >= 0

\* a string is truthy exactly when it is not empty
Truthy(s) == Len(s) > 0

\* a || b on strings
Or2(a, b) == IF Truthy(a) THEN a ELSE b

\* Number.prototype.toString for an array index (the template literal post-idx)
Digit(n) ==
  CASE n = 0 -> "0" [] n = 1 -> "1" [] n = 2 -> "2" [] n = 3 -> "3" [] n = 4 -> "4"
    [] n = 5 -> "5" [] n = 6 -> "6" [] n = 7 -> "7" [] n = 8 -> "8" [] n = 9 -> "9"

RECURSIVE NumToString(_)
NumToString(n) == IF n < 10 THEN <<Digit(n)>> ELSE NumToString(n \div 10) \o <<Digit(n % 10)>>

PostIdx(idx) == <<"p", "o", "s", "t", "-">> \o NumToString(idx)

ADMIN    == <<"A", "d", "m", "i", "n">>
UNTITLED == <<"U", "n", "t", "i", "t", "l", "e", "d", " ", "P", "o", "s", "t">>

\* ------------------------------------------------------------------- dates
\* new Date(dateStr): the time value in days since the epoch, or Invalid Date
\* (getTime() is NaN)
Valid(t)    == [nan |-> FALSE, time |-> t]
InvalidDate == [nan |-> TRUE, time |-> 0]

ParseJSDate(dateStr) ==
  CASE dateStr = "2024-01-01" -> Valid(19723)
    [] dateStr = "2024-06-01" -> Valid(19875)
    [] dateStr = "2023-03-15" -> Valid(19431)
    [] dateStr = "1970-01-01" -> Valid(0)
    [] dateStr = "1969-07-20" -> Valid(0 - 165)
    [] dateStr = "11/3/2026"  -> Valid(20760)
    [] OTHER                  -> InvalidDate

\* new Date().toLocaleDateString() on the day of the run
TODAY == "11/3/2026"

parseDate(dateStr) ==
  LET d == ParseJSDate(dateStr)
  IN  IF d.nan THEN 0 ELSE d.time

\* ------------------------------------------------------------------- posts
Languages  == {"en", "fr"}
SortOrders == {"newest", "oldest"}
Fields     == {"title", "description", "content"}

\* post.translations: per target language an entry { title, excerpt, content },
\* or none
TargetLangs == <<"en", "fr", "ht">>
NoTranslation == [present |-> FALSE, title |-> <<>>, excerpt |-> <<>>, content |-> <<>>]
Translation(title, excerpt, content) ==
  [present |-> TRUE, title |-> title, excerpt |-> excerpt, content |-> content]
NoTranslations == [en |-> NoTranslation, fr |-> NoTranslation, ht |-> NoTranslation]

\* A post object as the payload supplies it.  A member that is absent, and a
\* member that is "" or 0, are alike falsy and take the same branch of every ||.
EmptyRaw ==
  [id |-> <<>>, author |-> <<>>, publicationDate |-> "", readTimeMinutes |-> 0,
   title |-> <<>>, title_fr |-> <<>>, title_en |-> <<>>,
   description |-> <<>>, description_fr |-> <<>>, description_en |-> <<>>,
   content |-> <<>>, content_fr |-> <<>>, content_en |-> <<>>,
   excerpt |-> <<>>, isPublished |-> FALSE, translations |-> NoTranslations]

normalizePost_indexedId(p, idx) ==
  [p EXCEPT
     !.id              = Or2(p.id, <<"p", "o", "s", "t">>) \o <<"-">> \o NumToString(idx),
     !.author          = Or2(p.author, ADMIN),
     !.publicationDate = IF p.publicationDate # "" THEN p.publicationDate ELSE TODAY,
     !.readTimeMinutes = IF p.readTimeMinutes # 0 THEN p.readTimeMinutes ELSE DEFAULT_READ_TIME,
     !.title           = Or2(p.title, Or2(p.title_fr, Or2(p.title_en, UNTITLED))),
     !.description     = Or2(p.description, Or2(p.description_fr, Or2(p.description_en, <<>>))),
     !.content         = Or2(p.content, Or2(p.content_fr, Or2(p.content_en, <<>>)))]

normalizePost_oneBasedId(p, idx) ==
  [p EXCEPT
     !.id              = Or2(p.id, PostIdx(idx + 1)),
     !.author          = Or2(p.author, ADMIN),
     !.publicationDate = IF p.publicationDate # "" THEN p.publicationDate ELSE TODAY,
     !.readTimeMinutes = IF p.readTimeMinutes # 0 THEN p.readTimeMinutes ELSE DEFAULT_READ_TIME,
     !.title           = Or2(p.title, Or2(p.title_fr, Or2(p.title_en, UNTITLED))),
     !.description     = Or2(p.description, Or2(p.description_fr, Or2(p.description_en, <<>>))),
     !.content         = Or2(p.content, Or2(p.content_fr, Or2(p.content_en, <<>>)))]

\* the map callback of validPosts: one extracted element and its zero-based index
normalizePost(p, idx) ==
  [p EXCEPT
     !.id              = Or2(p.id, PostIdx(idx)),
     !.author          = Or2(p.author, ADMIN),
     !.publicationDate = IF p.publicationDate # "" THEN p.publicationDate ELSE TODAY,
     !.readTimeMinutes = IF p.readTimeMinutes # 0 THEN p.readTimeMinutes ELSE DEFAULT_READ_TIME,
     !.title           = Or2(p.title, Or2(p.title_fr, Or2(p.title_en, UNTITLED))),
     !.description     = Or2(p.description, Or2(p.description_fr, Or2(p.description_en, <<>>))),
     !.content         = Or2(p.content, Or2(p.content_fr, Or2(p.content_en, <<>>)))]

\* the key field_language
LangKey(field, lang) ==
  CASE field = "title"       /\ lang = "fr" -> "title_fr"
    [] field = "title"       /\ lang = "en" -> "title_en"
    [] field = "description" /\ lang = "fr" -> "description_fr"
    [] field = "description" /\ lang = "en" -> "description_en"
    [] field = "content"     /\ lang = "fr" -> "content_fr"
    [] field = "content"     /\ lang = "en" -> "content_en"

getLangField_baseFirst(post, field, lang) ==
  Or2(post[field], Or2(post[LangKey(field, lang)], <<>>))

getLangField(post, field, lang) ==
  Or2(post[LangKey(field, lang)], Or2(post[field], <<>>))

\* ------------------------------------------------------------------ search
SNIPPET_RADIUS == 40
ELLIPSIS == <<".", ".", ".">>

\* String.prototype.substring(start, end) with 0 <= start <= end <= length
substring(s, start, end) == SubSeq(s, start + 1, end)

\* .replace(/[\n\r]/g, " ")
replaceNewlines(s) == [i \in 1..Len(s) |-> IF s[i] \in {"\n", "\r"} THEN " " ELSE s[i]]

NoMatch == [hit |-> FALSE]

\* the matched field, decided in the order author, title, description, content
matchedType_titleFirst(authorMatch, titleMatch, descMatch) ==
  IF titleMatch THEN "title"
  ELSE IF authorMatch THEN "author"
  ELSE IF descMatch THEN "description"
  ELSE "content"

matchedType(authorMatch, titleMatch, descMatch) ==
  IF authorMatch THEN "author"
  ELSE IF titleMatch THEN "title"
  ELSE IF descMatch THEN "description"
  ELSE "content"

\* the map callback of searchResults: a match record, or null (NoMatch)
searchOne_caseSensitive(p, q, lang) ==
  LET title   == getLangField(p, "title", lang)
      desc    == getLangField(p, "description", lang)
      content == getLangField(p, "content", lang)
      author  == Or2(p.author, ADMIN)
      titleMatch   == includes(title, q)
      descMatch    == includes(desc, q)
      contentMatch == includes(content, q)
      authorMatch  == includes(author, q)
  IN  IF titleMatch \/ descMatch \/ contentMatch \/ authorMatch
      THEN [hit |-> TRUE, post |-> p, title |-> title, snippet |-> <<>>,
            author |-> author, type |-> matchedType(authorMatch, titleMatch, descMatch)]
      ELSE NoMatch

searchOne(p, q, lang) ==
  LET title   == getLangField(p, "title", lang)
      desc    == getLangField(p, "description", lang)
      content == getLangField(p, "content", lang)
      author  == Or2(p.author, ADMIN)
      titleMatch   == includes(toLowerCase(title), q)
      descMatch    == includes(toLowerCase(desc), q)
      contentMatch == includes(toLowerCase(content), q)
      authorMatch  == includes(toLowerCase(author), q)
      type  == matchedType(authorMatch, titleMatch, descMatch)
      index == indexOf(toLowerCase(content), q)
      start == Max({0, index - SNIPPET_RADIUS})
      end   == Min({Len(content), index + Len(q) + SNIPPET_RADIUS})
      snippet ==
        IF type = "content"
        THEN (IF start > 0 THEN ELLIPSIS ELSE <<>>)
               \o replaceNewlines(substring(content, start, end))
               \o (IF end < Len(content) THEN ELLIPSIS ELSE <<>>)
        ELSE <<>>
  IN  IF titleMatch \/ descMatch \/ contentMatch \/ authorMatch
      THEN [hit |-> TRUE, post |-> p, title |-> title, snippet |-> snippet,
            author |-> author, type |-> type]
      ELSE NoMatch

IsHit(r) == r.hit

\* useMemo searchResults
searchResults_noguard(ps, query, lang) ==
  LET q == toLowerCase(query)
  IN  SelectSeq([i \in 1..Len(ps) |-> searchOne(ps[i], q, lang)], IsHit)

searchResults(ps, query, lang) ==
  IF ~Truthy(trim(query)) THEN <<>>
  ELSE LET q == toLowerCase(query)
       IN  SelectSeq([i \in 1..Len(ps) |-> searchOne(ps[i], q, lang)], IsHit)

\* -------------------------------------------------------------------- sort
\* the comparator handed to Array.prototype.sort
compareDates_flipped(a, b, order) ==
  LET dateA == parseDate(a.publicationDate)
      dateB == parseDate(b.publicationDate)
  IN  IF order = "newest" THEN dateA - dateB ELSE dateB - dateA

compareDates(a, b, order) ==
  LET dateA == parseDate(a.publicationDate)
      dateB == parseDate(b.publicationDate)
  IN  IF order = "newest" THEN dateB - dateA ELSE dateA - dateB

\* Array.prototype.sort is stable (ECMAScript 2019): an element is placed after
\* every element already placed that does not compare greater than it
RECURSIVE insertSorted(_, _, _)
insertSorted(sorted, x, order) ==
  IF sorted = <<>> THEN <<x>>
  ELSE LET last == sorted[Len(sorted)]
       IN  IF compareDates(last, x, order) <= 0
           THEN Append(sorted, x)
           ELSE Append(insertSorted(SubSeq(sorted, 1, Len(sorted) - 1), x, order), last)

RECURSIVE sortFrom(_, _, _, _)
sortFrom(list, i, acc, order) ==
  IF i > Len(list) THEN acc
  ELSE sortFrom(list, i + 1, insertSorted(acc, list[i], order), order)

sortByDate(list, order) == sortFrom(list, 1, <<>>, order)

\* the working set handed to the sort
baseList_unfiltered(ps, query, lang) == ps

baseList(ps, query, lang) ==
  IF Truthy(trim(query))
  THEN LET rs == searchResults(ps, query, lang) IN [i \in 1..Len(rs) |-> rs[i].post]
  ELSE ps

\* useMemo allFilteredBlogs
allFilteredBlogs(ps, query, lang, order) == sortByDate(baseList(ps, query, lang), order)

\* ---------------------------------------------------------------- paginate
\* Math.ceil(n / d) for n >= 0, d > 0
ceilDiv_floor(n, d) == n \div d

ceilDiv(n, d) == IF n % d = 0 THEN n \div d ELSE (n \div d) + 1

totalPagesOf(all) == ceilDiv(Len(all), POSTS_PER_PAGE)

\* Array.prototype.slice(start, end) with 0 <= start <= end
slice(list, start, end) == SubSeq(list, start + 1, Min({end, Len(list)}))

\* useMemo filteredBlogs
pageOf_offByOne(all, page) ==
  LET start == page * POSTS_PER_PAGE
  IN  slice(all, start, start + POSTS_PER_PAGE)

pageOf(all, page) ==
  LET start == (page - 1) * POSTS_PER_PAGE
  IN  slice(all, start, start + POSTS_PER_PAGE)

\* ------------------------------------------------------- the response body
\* The body of the response is a sequence of tokens: prose ("txt"), white space
\* ("ws"), a code fence ("fence", three backticks) and its tag ("json"), the four brackets, the
\* literal null, an object member with a scalar value ("member", with its name k
\* and value v) and the member name "posts" that a value follows ("posts:").
\* The separators of members and elements are part of their tokens.
Tok(t) == [t |-> t, k |-> "", v |-> 0]
Member(k, v) == [t |-> "member", k |-> k, v |-> v]
LBRACE == Tok("{")
RBRACE == Tok("}")
LBRACK == Tok("[")
RBRACK == Tok("]")
FENCE  == Tok("fence")
JSONTAG == Tok("json")
WS     == Tok("ws")
TXT    == Tok("txt")
NULLTOK == Tok("null")
POSTSKEY == Tok("posts:")

\* parsed JSON values
JNull      == [kind |-> "null"]
JArr(xs)   == [kind |-> "array", items |-> xs]
JObj(m, p) == [kind |-> "object", members |-> m, posts |-> p]

IndicesOf(toks, kinds) == {i \in 1..Len(toks) : toks[i].t \in kinds}

\* text.trim() on a token sequence
trimTokens(toks) ==
  LET keep == {i \in 1..Len(toks) : toks[i].t # "ws"}
  IN  IF keep = {} THEN <<>> ELSE SubSeq(toks, Min(keep), Max(keep))

\* the code block match of cleanText: a fence, an optional json tag, white space,
\* the shortest run up to white space and the next fence (group 1), or no match
codeBlockMatch(toks) ==
  LET fences == IndicesOf(toks, {"fence"})
  IN  IF Cardinality(fences) < 2 THEN [matched |-> FALSE, group |-> <<>>]
      ELSE LET open  == Min(fences)
               close == Min(fences \ {open})
               from  == IF open + 1 < close /\ toks[open + 1].t = "json"
                        THEN open + 2 ELSE open + 1
           IN  [matched |-> TRUE, group |-> trimTokens(SubSeq(toks, from, close - 1))]

\* cleanText.match(/[{\[][\s\S]*[}\]]/): the span from the first opening bracket
\* to the last closing bracket after it, or no match
jsonMatch(toks) ==
  LET opens  == IndicesOf(toks, {"{", "["})
      closes == IndicesOf(toks, {"}", "]"})
  IN  IF opens = {} \/ closes = {} \/ Max(closes) < Min(opens)
      THEN [matched |-> FALSE, span |-> <<>>]
      ELSE [matched |-> TRUE, span |-> SubSeq(toks, Min(opens), Max(closes))]

\* JSON.parse: a recursive-descent parse of the span; white space between tokens
\* is insignificant, anything else out of place is a SyntaxError
ParseFail == [ok |-> FALSE, val |-> JNull, next |-> 0]
Parsed(v, n) == [ok |-> TRUE, val |-> v, next |-> n]

RECURSIVE parseValue(_, _), parseElements(_, _, _), parseMembers(_, _, _, _)
parseValue(ts, i) ==
  IF i > Len(ts) THEN ParseFail
  ELSE CASE ts[i].t = "["    -> parseElements(ts, i + 1, <<>>)
         [] ts[i].t = "{"    -> parseMembers(ts, i + 1, EmptyRaw, JNull)
         [] ts[i].t = "null" -> Parsed(JNull, i + 1)
         [] OTHER            -> ParseFail

parseElements(ts, i, acc) ==
  IF i > Len(ts) THEN ParseFail
  ELSE IF ts[i].t = "]" THEN Parsed(JArr(acc), i + 1)
  ELSE LET r == parseValue(ts, i)
       IN  IF r.ok THEN parseElements(ts, r.next, Append(acc, r.val)) ELSE ParseFail

parseMembers(ts, i, m, p) ==
  IF i > Len(ts) THEN ParseFail
  ELSE CASE ts[i].t = "}"      -> Parsed(JObj(m, p), i + 1)
         [] ts[i].t = "member" -> parseMembers(ts, i + 1, [m EXCEPT ![ts[i].k] = ts[i].v], p)
         [] ts[i].t = "posts:" ->
              LET r == parseValue(ts, i + 1)
              IN  IF r.ok THEN parseMembers(ts, r.next, m, r.val) ELSE ParseFail
         [] OTHER              -> ParseFail

NotWs(tok) == tok.t # "ws"

JSONparse(span) ==
  LET ts == SelectSeq(span, NotWs)
      r  == parseValue(ts, 1)
  IN  IF r.ok /\ r.next = Len(ts) + 1 THEN r ELSE ParseFail

extractPosts_arrayOnly(data) ==
  IF data.kind = "array" THEN data.items ELSE <<data>>

\* extractedPosts: the three shapes of the payload
extractPosts(data) ==
  IF data.kind = "array" THEN data.items
  ELSE IF data.posts.kind = "array" THEN data.posts.items
  ELSE <<data>>

\* what the spread and the member reads of the map callback see of an element;
\* reading a member of null throws a TypeError
ElementThrows(e) == e.kind = "null"
ElementMembers(e) == IF e.kind = "object" THEN e.members ELSE EmptyRaw

\* validPosts
validPosts(extracted) ==
  [i \in 1..Len(extracted) |-> normalizePost(ElementMembers(extracted[i]), i - 1)]

\* The run of fetchData after its await: how it ends and the list it would set.
\*   "network"  fetch rejects                      (caught, logged)
\*   "http"     !response.ok                       (thrown, caught, logged)
\*   "nospan"   jsonMatch is null                  (no update, nothing logged)
\*   "syntax"   JSON.parse throws                  (caught, logged)
\*   "type"     the map callback throws            (caught, logged)
\*   "ok"       setPosts(validPosts); setLastUpdated(new Date())
Outcome(o, ps) == [outcome |-> o, posts |-> ps]

fetchOutcome(resp) ==
  IF resp.rejects THEN Outcome("network", <<>>)
  ELSE IF ~resp.ok THEN Outcome("http", <<>>)
  ELSE LET text  == trimTokens(resp.text)
           block == codeBlockMatch(text)
           clean == IF block.matched THEN block.group ELSE text
           m     == jsonMatch(clean)
       IN  IF ~m.matched THEN Outcome("nospan", <<>>)
           ELSE LET data == JSONparse(m.span)
                IN  IF ~data.ok THEN Outcome("syntax", <<>>)
                    ELSE LET extracted == extractPosts(data.val)
                         IN  IF \E i \in 1..Len(extracted) : ElementThrows(extracted[i])
                             THEN Outcome("type", <<>>)
                             ELSE Outcome("ok", validPosts(extracted))

\* ------------------------------------------------------------ the inputs
\* Post objects a payload can hold.  Together they cover: an id supplied, absent
\* and supplied twice; an author absent; dates parsed, not parsed, equal, at the
\* epoch and before it; texts that differ by language and by case.
Raw1 == [EmptyRaw EXCEPT !.id = <<"x">>, !.author = <<"A", "b">>,
           !.publicationDate = "2024-01-01", !.readTimeMinutes = 3,
           !.title = <<"b", "a">>, !.title_fr = <<"b">>, !.content = <<"a", " ", "b">>]
Raw2 == [EmptyRaw EXCEPT !.id = <<"y">>, !.publicationDate = "not-a-date",
           !.title_en = <<"A">>, !.description = <<"b">>]
Raw3 == [EmptyRaw EXCEPT !.author = <<"B">>, !.publicationDate = "2024-06-01",
           !.title = <<"b">>, !.content = <<"a", "a">>, !.content_en = <<"b", "\n", "b">>]
Raw4 == [EmptyRaw EXCEPT !.id = PostIdx(1), !.author = <<"b">>,
           !.publicationDate = "1969-07-20", !.title = <<"B">>, !.description = <<"a">>]
Raw5 == [EmptyRaw EXCEPT !.id = <<"w">>, !.author = <<"a">>,
           !.publicationDate = "1970-01-01", !.title = <<"a", "b">>,
           !.translations = [NoTranslations EXCEPT
                               !.en = Translation(<<"c">>, <<>>, <<"c">>)]]
Raw6 == [EmptyRaw EXCEPT !.id = <<"y">>, !.author = <<"b">>,
           !.publicationDate = "2024-01-01", !.readTimeMinutes = 0 - 1,
           !.title = <<"a", " ", "b">>,
           !.description_fr = <<"A">>]

RawPool == <<Raw1, Raw2, Raw3, Raw4, Raw5, Raw6>>

\* every list of at most n posts of the pool
RECURSIVE ListsUpTo(_)
ListsUpTo(n) ==
  IF n = 0 THEN {<<>>}
  ELSE LET shorter == ListsUpTo(n - 1)
       IN  shorter \cup {Append(l, RawPool[i]) : l \in shorter, i \in 1..Len(RawPool)}

\* a list of n posts without ids, long enough to fill several pages
LongList(n) == [i \in 1..n |-> [RawPool[(i % Len(RawPool)) + 1] EXCEPT !.id = <<>>]]
LongLengths == {POSTS_PER_PAGE, POSTS_PER_PAGE + 1, 2 * POSTS_PER_PAGE, 2 * POSTS_PER_PAGE + 1}

RawLists == ListsUpTo(MaxLen) \cup {LongList(n) : n \in LongLengths}

\* the queries typed into the search box: empty, blank, in either case, with a
\* space before or after, matching in one field, in several and in none
Queries ==
  {<<>>, <<" ">>, <<"a">>, <<"A">>, <<"b">>, <<"a", "b">>, <<" ", "b">>, <<"a", " ">>, <<"m">>}

\* JSON text of a post object: one member per member that is present
MemberKeys ==
  <<"id", "author", "publicationDate", "readTimeMinutes", "title", "title_fr", "title_en",
    "description", "description_fr", "description_en", "content", "content_fr", "content_en",
    "excerpt", "isPublished", "translations">>

RECURSIVE membersFrom(_, _)
membersFrom(raw, i) ==
  IF i > Len(MemberKeys) THEN <<>>
  ELSE LET k == MemberKeys[i]
       IN  (IF raw[k] = EmptyRaw[k] THEN <<>> ELSE <<Member(k, raw[k])>>)
             \o membersFrom(raw, i + 1)

objectText(raw) == <<LBRACE>> \o membersFrom(raw, 1) \o <<RBRACE>>

RECURSIVE elementsText(_, _)
elementsText(list, i) ==
  IF i > Len(list) THEN <<>> ELSE objectText(list[i]) \o elementsText(list, i + 1)

arrayText(list) == <<LBRACK>> \o elementsText(list, 1) \o <<RBRACK>>

\* the bodies the content source answers with
Bodies ==
  { arrayText(<<Raw1, Raw2>>),
    arrayText(<<>>),
    arrayText(LongList(POSTS_PER_PAGE + 1)),
    <<WS, TXT, FENCE, JSONTAG, WS, LBRACE, POSTSKEY>> \o arrayText(<<Raw6, Raw4>>)
        \o <<RBRACE, WS, FENCE, TXT, WS>>,
    <<FENCE, WS>> \o objectText(Raw3) \o <<FENCE>>,
    <<TXT, WS, TXT>>,
    <<RBRACK, TXT, LBRACE>>,
    <<LBRACK>> \o objectText(Raw1),
    <<LBRACK, TXT, RBRACK, WS>> \o objectText(Raw1),
    <<LBRACK>> \o objectText(Raw3) \o <<NULLTOK, RBRACK>> }

Responses ==
  {[rejects |-> TRUE,  ok |-> FALSE, text |-> <<>>]}
    \cup {[rejects |-> FALSE, ok |-> FALSE, text |-> <<TXT>>]}
    \cup {[rejects |-> FALSE, ok |-> TRUE, text |-> b] : b \in Bodies}

\* what fetchData makes of each response
OutcomeOf == [resp \in Responses |-> fetchOutcome(resp)]

\* ------------------------------------------------------------- the state
VARIABLES
  posts,           \* useState<BlogPost[]>([])
  view,            \* "home" or "article"
  selectedPostId,  \* an id, or NULL_ID
  language,        \* "fr" or "en"
  isLoading,
  lastUpdated,     \* the clock reading of the last successful fetch
  searchQuery,
  sortOrder,
  currentPage,
  inflight,        \* the calls of fetchData suspended at their await
  fetchSeq,        \* calls of fetchData so far
  now,             \* the clock: read when a fetch starts and when it completes
  lastFetch,       \* the call of fetchData that completed last, and how
  prevFetch,       \* the one that completed before it
  translatingId,   \* Dashboard: useState<string | null>(null)
  isGenerating,    \* Dashboard: useState(false)
  topic,           \* Dashboard: the topic typed for the generator
  jobs,            \* Dashboard: handler calls suspended at their await
  jobSeq,          \* Dashboard: handler calls started so far
  alerts,          \* alert(...) shown so far
  lastJob,         \* the handler call that ended last, and how
  username,        \* Auth: useState('admin')
  password,        \* Auth: useState('admin')
  error,           \* Auth: useState('')
  authIsLoading,   \* Auth: its own isLoading, useState(false)
  loginTimers,     \* Auth: the setTimeout callbacks of handleSubmit not yet run
  submits,         \* Auth: submissions of the form so far
  logins,          \* calls of onLogin so far
  lastSubmit,      \* the submission whose callback ran last, and what it did
  toast,           \* useState<string | null>(null)
  toastTimers,     \* the setTimeout callbacks of showToast not yet run
  toastSeq,        \* calls of showToast so far
  toastBy,         \* the call of showToast that set the toast shown
  shares,          \* calls of handleShare suspended at an await
  shareSeq,        \* calls of handleShare so far
  clipboard,       \* writes of the page URL to the clipboard so far
  lastShare,       \* the call of handleShare that ended last, and what it did
  imagePost,       \* getPostImage: its argument
  imagePc,         \* getPostImage: where the call is
  idString,        \* getPostImage: post.id || "0"
  hash,            \* getPostImage: the 32-bit integer of the loop
  hashPos,         \* getPostImage: the loop's i
  postImage        \* getPostImage: what it returned

adminVars == <<translatingId, isGenerating, topic, jobs, jobSeq, alerts, lastJob>>
authVars  == <<username, password, error, authIsLoading, loginTimers, submits, logins,
               lastSubmit>>
shareVars == <<toast, toastTimers, toastSeq, toastBy, shares, shareSeq, clipboard,
               lastShare>>
imageVars == <<imagePost, imagePc, idString, hash, hashPos, postImage>>

vars == <<posts, view, selectedPostId, language, isLoading, lastUpdated, searchQuery,
          sortOrder, currentPage, inflight, fetchSeq, now, lastFetch, prevFetch,
          translatingId, isGenerating, topic, jobs, jobSeq, alerts, lastJob,
          username, password, error, authIsLoading, loginTimers, submits, logins,
          lastSubmit, toast, toastTimers, toastSeq, toastBy, shares, shareSeq,
          clipboard, lastShare, imagePost, imagePc, idString, hash, hashPos, postImage>>

fetchVars == <<inflight, fetchSeq, now, lastFetch, prevFetch>>
dataVars  == <<posts, lastUpdated, isLoading>>
viewVars  == <<view, selectedPostId, language, searchQuery, sortOrder, currentPage>>

\* selectedPostId is null: no post has the empty id
NULL_ID == <<>>

\* a completed call: its number, how it ended and the list it had to set
Done(id, r) == [id |-> id, outcome |-> r.outcome, payload |-> r.posts]
NoFetch == [id |-> 0, outcome |-> "none", payload |-> <<>>]

\* a handler call of Dashboard that has ended: the post it was started for, the
\* languages it called translate for, the translation map it built, how it ended
NoJob ==
  [id |-> 0, kind |-> "none", outcome |-> "none", post |-> EmptyRaw, called |-> <<>>,
   translations |-> NoTranslations]

\* Dashboard as mounted: the initial values of its useState
InitDashboard ==
  /\ translatingId = NULL_ID
  /\ isGenerating = FALSE
  /\ topic = <<>>
  /\ jobs = {}
  /\ jobSeq = 0
  /\ alerts = 0
  /\ lastJob = NoJob

\* 'admin', the user name and the password handleSubmit compares with
ADMIN_LOGIN == <<"a", "d", "m", "i", "n">>

\* a submission whose callback has run
NoSubmit == [id |-> 0, username |-> <<>>, password |-> <<>>, called |-> FALSE]

\* Auth as mounted: the initial values of its useState
InitAuth ==
  /\ username = ADMIN_LOGIN
  /\ password = ADMIN_LOGIN
  /\ error = ""
  /\ authIsLoading = FALSE
  /\ loginTimers = {}
  /\ submits = 0
  /\ logins = 0
  /\ lastSubmit = NoSubmit

\* toast is null
NO_TOAST == ""

\* a call of handleShare that has ended: how navigator.share ended (none when
\* it was not called), how the write to the clipboard ended, whether showToast
\* was called
NoShare == [id |-> 0, handler |-> "none", platform |-> "none", shared |-> "none",
            copied |-> "none", toasted |-> FALSE]

\* no toast, no call of handleShare yet
InitShare ==
  /\ toast = NO_TOAST
  /\ toastTimers = {}
  /\ toastSeq = 0
  /\ toastBy = 0
  /\ shares = {}
  /\ shareSeq = 0
  /\ clipboard = 0
  /\ lastShare = NoShare

\* what getPostImage is given, and what it returns: the post's own imageUrl, or
\* the fallback image at an index of DEFAULT_BLOG_IMAGES
ImagePost(imageUrl, id) == [imageUrl |-> imageUrl, id |-> id]
NoImage == [from |-> "none", url |-> <<>>, index |-> 0]

\* no call of getPostImage
InitImage ==
  /\ imagePost = ImagePost(<<>>, <<>>)
  /\ imagePc = "idle"
  /\ idString = <<>>
  /\ hash = 0
  /\ hashPos = 0
  /\ postImage = NoImage

\* the derived values of a render
SearchResults    == searchResults(posts, searchQuery, language)
BaseList         == baseList(posts, searchQuery, language)
AllFilteredBlogs == allFilteredBlogs(posts, searchQuery, language, sortOrder)
TotalPages       == totalPagesOf(AllFilteredBlogs)
FilteredBlogs    == pageOf(AllFilteredBlogs, currentPage)

\* the state after construction: the initial values of useState
Init ==
  /\ posts = <<>>
  /\ view = "home"
  /\ selectedPostId = NULL_ID
  /\ language = "fr"
  /\ isLoading = TRUE
  /\ lastUpdated = 0
  /\ searchQuery = <<>>
  /\ sortOrder = "newest"
  /\ currentPage = 1
  /\ inflight = {}
  /\ fetchSeq = 0
  /\ now = 0
  /\ lastFetch = NoFetch
  /\ prevFetch = NoFetch
  /\ InitDashboard
  /\ InitAuth
  /\ InitShare
  /\ InitImage

\* ------------------------------------------------------------- fetchData
StartFetch_alwaysLoading(isSilent) ==
  /\ fetchSeq < MaxFetches
  /\ Cardinality(inflight) < MaxInFlight
  /\ isLoading' = TRUE
  /\ fetchSeq' = fetchSeq + 1
  /\ now' = now + 1
  /\ inflight' = inflight \cup {[id |-> fetchSeq + 1, silent |-> isSilent, t |-> now + 1]}
  /\ UNCHANGED <<posts, lastUpdated, lastFetch, prevFetch>>
  /\ UNCHANGED viewVars
  /\ UNCHANGED adminVars
  /\ UNCHANGED authVars
  /\ UNCHANGED shareVars
  /\ UNCHANGED imageVars

\* fetchData up to its await: the loading flag, then the request leaves with
\* the clock reading as its cache buster
StartFetch(isSilent) ==
  /\ fetchSeq < MaxFetches
  /\ Cardinality(inflight) < MaxInFlight
  /\ isLoading' = IF isSilent THEN isLoading ELSE TRUE
  /\ fetchSeq' = fetchSeq + 1
  /\ now' = now + 1
  /\ inflight' = inflight \cup {[id |-> fetchSeq + 1, silent |-> isSilent, t |-> now + 1]}
  /\ UNCHANGED <<posts, lastUpdated, lastFetch, prevFetch>>
  /\ UNCHANGED viewVars
  /\ UNCHANGED adminVars
  /\ UNCHANGED authVars
  /\ UNCHANGED shareVars
  /\ UNCHANGED imageVars

\* useEffect(() => { fetchData(); setInterval(...); addEventListener('focus', ...) })
Mount ==
  /\ fetchSeq = 0
  /\ StartFetch(FALSE)

\* the interval's callback
PollTick ==
  /\ fetchSeq > 0
  /\ StartFetch(TRUE)

\* handleFocus
WindowFocus ==
  /\ fetchSeq > 0
  /\ StartFetch(TRUE)

\* fetchData from its await to its end, for the response the request gets
FetchComplete_clearsOnError(f, resp) ==
  LET r == OutcomeOf[resp]
  IN  /\ f \in inflight
      /\ inflight' = inflight \ {f}
      /\ now' = now + 1
      /\ posts' = r.posts
      /\ lastUpdated' = now + 1
      /\ isLoading' = IF f.silent THEN isLoading ELSE FALSE
      /\ prevFetch' = lastFetch
      /\ lastFetch' = Done(f.id, r)
      /\ UNCHANGED fetchSeq
      /\ UNCHANGED viewVars
      /\ UNCHANGED adminVars
      /\ UNCHANGED authVars
      /\ UNCHANGED shareVars
      /\ UNCHANGED imageVars

FetchComplete_dropsStale(f, resp) ==
  LET r == OutcomeOf[resp]
      fresh == f.id > lastFetch.id
  IN  /\ f \in inflight
      /\ inflight' = inflight \ {f}
      /\ now' = now + 1
      /\ posts' = IF r.outcome = "ok" /\ fresh THEN r.posts ELSE posts
      /\ lastUpdated' = IF r.outcome = "ok" /\ fresh THEN now + 1 ELSE lastUpdated
      /\ isLoading' = IF f.silent THEN isLoading ELSE FALSE
      /\ prevFetch' = lastFetch
      /\ lastFetch' = Done(f.id, r)
      /\ UNCHANGED fetchSeq
      /\ UNCHANGED viewVars
      /\ UNCHANGED adminVars
      /\ UNCHANGED authVars
      /\ UNCHANGED shareVars
      /\ UNCHANGED imageVars

FetchComplete(f, resp) ==
  LET r == OutcomeOf[resp]
  IN  /\ f \in inflight
      /\ inflight' = inflight \ {f}
      /\ now' = now + 1
      /\ posts' = IF r.outcome = "ok" THEN r.posts ELSE posts
      /\ lastUpdated' = IF r.outcome = "ok" THEN now + 1 ELSE lastUpdated
      /\ isLoading' = IF f.silent THEN isLoading ELSE FALSE
      /\ prevFetch' = lastFetch
      /\ lastFetch' = Done(f.id, r)
      /\ UNCHANGED fetchSeq
      /\ UNCHANGED viewVars
      /\ UNCHANGED adminVars
      /\ UNCHANGED authVars
      /\ UNCHANGED shareVars
      /\ UNCHANGED imageVars

\* ------------------------------------------------------- the user's input
\* App renders the spinner alone while isLoading; a handler of the home or of the
\* article view can run only when that view is rendered
Rendered(v) == ~isLoading /\ view = v

\* useEffect(() => setCurrentPage(1), [searchQuery, sortOrder, language]): runs
\* after the render in which one of its dependencies changed
pageAfter_noLanguage(q, o, l) ==
  IF q # searchQuery \/ o # sortOrder THEN 1 ELSE currentPage

pageAfter(q, o, l) ==
  IF q # searchQuery \/ o # sortOrder \/ l # language THEN 1 ELSE currentPage

\* onChange of the search input
SetSearchQuery(q) ==
  /\ Rendered("home")
  /\ searchQuery' = q
  /\ currentPage' = pageAfter(q, sortOrder, language)
  /\ UNCHANGED <<view, selectedPostId, language, sortOrder>>
  /\ UNCHANGED dataVars
  /\ UNCHANGED fetchVars
  /\ UNCHANGED adminVars
  /\ UNCHANGED authVars
  /\ UNCHANGED shareVars
  /\ UNCHANGED imageVars

\* onChange of the sort select
SetSortOrder(o) ==
  /\ Rendered("home")
  /\ sortOrder' = o
  /\ currentPage' = pageAfter(searchQuery, o, language)
  /\ UNCHANGED <<view, selectedPostId, language, searchQuery>>
  /\ UNCHANGED dataVars
  /\ UNCHANGED fetchVars
  /\ UNCHANGED adminVars
  /\ UNCHANGED authVars
  /\ UNCHANGED shareVars
  /\ UNCHANGED imageVars

\* onLanguageChange of the LanguageSwitcher, in the home and in the article view
SetLanguage(l) ==
  /\ ~isLoading
  /\ language' = l
  /\ currentPage' = pageAfter(searchQuery, sortOrder, l)
  /\ UNCHANGED <<view, selectedPostId, searchQuery, sortOrder>>
  /\ UNCHANGED dataVars
  /\ UNCHANGED fetchVars
  /\ UNCHANGED adminVars
  /\ UNCHANGED authVars
  /\ UNCHANGED shareVars
  /\ UNCHANGED imageVars

\* The pagination controls of the home view are rendered when the page shown is
\* not empty and there is more than one page: prev (disabled on page 1), one
\* button per page, next (disabled on the last page).
PageButtons ==
  IF ~Rendered("home") THEN {}
  ELSE LET all   == AllFilteredBlogs
           total == totalPagesOf(all)
       IN  IF Len(pageOf(all, currentPage)) = 0 \/ total <= 1 THEN {}
           ELSE (1..total)
                  \cup (IF currentPage # 1 THEN {currentPage - 1} ELSE {})
                  \cup (IF currentPage # total THEN {currentPage + 1} ELSE {})

handlePageChange(page) ==
  /\ currentPage' = page
  /\ UNCHANGED <<view, selectedPostId, language, searchQuery, sortOrder>>
  /\ UNCHANGED dataVars
  /\ UNCHANGED fetchVars
  /\ UNCHANGED adminVars
  /\ UNCHANGED authVars
  /\ UNCHANGED shareVars
  /\ UNCHANGED imageVars

\* The ids a click in the home view can open: a card of the page shown, or a row
\* of the search drop-down (shown for a non-blank query once the input has the
\* focus).
Openable ==
  IF ~Rendered("home") THEN {}
  ELSE LET shown == FilteredBlogs
           rows  == SearchResults
       IN  {shown[i].id : i \in 1..Len(shown)} \cup {rows[i].post.id : i \in 1..Len(rows)}

\* the clicks tried: the first and the last card of the page, the first row of
\* the drop-down
Clicked ==
  IF ~Rendered("home") THEN {}
  ELSE LET shown == FilteredBlogs
           rows  == SearchResults
       IN  (IF Len(shown) = 0 THEN {} ELSE {shown[1].id, shown[Len(shown)].id})
             \cup (IF Len(rows) = 0 THEN {} ELSE {rows[1].post.id})

handleArticleOpen(id) ==
  /\ selectedPostId' = id
  /\ view' = "article"
  /\ searchQuery' = <<>>
  /\ currentPage' = pageAfter(<<>>, sortOrder, language)
  /\ UNCHANGED <<language, sortOrder>>
  /\ UNCHANGED dataVars
  /\ UNCHANGED fetchVars
  /\ UNCHANGED adminVars
  /\ UNCHANGED authVars
  /\ UNCHANGED shareVars
  /\ UNCHANGED imageVars

\* onClick of the back buttons of the article view; nothing of it is rendered
\* when no post has the selected id
BackToPosts ==
  /\ Rendered("article")
  /\ \E i \in 1..Len(posts) : posts[i].id = selectedPostId
  /\ view' = "home"
  /\ UNCHANGED <<selectedPostId, language, searchQuery, sortOrder, currentPage>>
  /\ UNCHANGED dataVars
  /\ UNCHANGED fetchVars
  /\ UNCHANGED adminVars
  /\ UNCHANGED authVars
  /\ UNCHANGED shareVars
  /\ UNCHANGED imageVars

\* the queries typed in a behaviour of the whole application
AppQueries == {<<>>, <<" ">>, <<"a">>}

Next ==
  \/ Mount
  \/ PollTick
  \/ WindowFocus
  \/ \E f \in inflight, resp \in Responses : FetchComplete(f, resp)
  \/ \E q \in AppQueries : SetSearchQuery(q)
  \/ \E o \in SortOrders : SetSortOrder(o)
  \/ \E l \in Languages : SetLanguage(l)
  \/ \E page \in PageButtons : handlePageChange(page)
  \/ \E id \in Clicked : handleArticleOpen(id)
  \/ BackToPosts

Spec == Init /\ [][Next]_vars

\* ------------------------------------------------ src/unnamed/part_003
\* searchResults of part_003: the same posts match, the field reported is
\* title, else author, else content
matchedType_part003(authorMatch, titleMatch) ==
  IF titleMatch THEN "title" ELSE IF authorMatch THEN "author" ELSE "content"

searchOne_part003(p, q, lang) ==
  LET title   == getLangField(p, "title", lang)
      desc    == getLangField(p, "description", lang)
      content == getLangField(p, "content", lang)
      author  == Or2(p.author, ADMIN)
  IN  IF \/ includes(toLowerCase(title), q)
         \/ includes(toLowerCase(desc), q)
         \/ includes(toLowerCase(content), q)
         \/ includes(toLowerCase(author), q)
      THEN [hit |-> TRUE, post |-> p, title |-> title, author |-> author,
            type |-> matchedType_part003(includes(toLowerCase(author), q),
                                         includes(toLowerCase(title), q))]
      ELSE NoMatch

searchResults_part003(ps, query, lang) ==
  IF ~Truthy(trim(query)) THEN <<>>
  ELSE LET q == toLowerCase(query)
       IN  SelectSeq([i \in 1..Len(ps) |-> searchOne_part003(ps[i], q, lang)], IsHit)

\* ------------------------------------------------ src/unnamed/part_002
\* searchResults of part_002: the title and the author alone are searched
searchOne_part002(p, q, lang) ==
  LET title  == getLangField(p, "title", lang)
      author == Or2(p.author, ADMIN)
  IN  IF includes(toLowerCase(title), q) \/ includes(toLowerCase(author), q)
      THEN [hit |-> TRUE, post |-> p, title |-> title, author |-> author]
      ELSE NoMatch

searchResults_part002(ps, query, lang) ==
  IF ~Truthy(trim(query)) THEN <<>>
  ELSE LET q == toLowerCase(query)
       IN  SelectSeq([i \in 1..Len(ps) |-> searchOne_part002(ps[i], q, lang)], IsHit)

allFilteredBlogs_part002(ps, query, lang, order) ==
  LET rs == searchResults_part002(ps, query, lang)
  IN  sortByDate(IF Truthy(trim(query)) THEN [i \in 1..Len(rs) |-> rs[i].post] ELSE ps, order)

AllFilteredBlogs_part002 == allFilteredBlogs_part002(posts, searchQuery, language, sortOrder)
TotalPages_part002       == totalPagesOf(AllFilteredBlogs_part002)
FilteredBlogs_part002    == pageOf(AllFilteredBlogs_part002, currentPage)

\* part_002 never reads isLoading: the view is rendered from the first render on
Rendered_part002(v) == view = v

\* useEffect(() => setCurrentPage(1), [searchQuery, sortOrder])
pageAfter_part002(q, o) ==
  IF q # searchQuery \/ o # sortOrder THEN 1 ELSE currentPage

SetSearchQuery_part002(q) ==
  /\ Rendered_part002("home")
  /\ searchQuery' = q
  /\ currentPage' = pageAfter_part002(q, sortOrder)
  /\ UNCHANGED <<view, selectedPostId, language, sortOrder>>
  /\ UNCHANGED dataVars
  /\ UNCHANGED fetchVars
  /\ UNCHANGED adminVars
  /\ UNCHANGED authVars
  /\ UNCHANGED shareVars
  /\ UNCHANGED imageVars

SetSortOrder_part002(o) ==
  /\ Rendered_part002("home")
  /\ sortOrder' = o
  /\ currentPage' = pageAfter_part002(searchQuery, o)
  /\ UNCHANGED <<view, selectedPostId, language, searchQuery>>
  /\ UNCHANGED dataVars
  /\ UNCHANGED fetchVars
  /\ UNCHANGED adminVars
  /\ UNCHANGED authVars
  /\ UNCHANGED shareVars
  /\ UNCHANGED imageVars

SetLanguage_part002(l) ==
  /\ view \in {"home", "article"}
  /\ language' = l
  /\ currentPage' = pageAfter_part002(searchQuery, sortOrder)
  /\ UNCHANGED <<view, selectedPostId, searchQuery, sortOrder>>
  /\ UNCHANGED dataVars
  /\ UNCHANGED fetchVars
  /\ UNCHANGED adminVars
  /\ UNCHANGED authVars
  /\ UNCHANGED shareVars
  /\ UNCHANGED imageVars

\* the prev button: rendered when there is more than one page, disabled on page 1
PrevPage_part002 ==
  /\ Rendered_part002("home")
  /\ TotalPages_part002 > 1
  /\ currentPage # 1
  /\ currentPage' = Max({1, currentPage - 1})
  /\ UNCHANGED <<view, selectedPostId, language, searchQuery, sortOrder>>
  /\ UNCHANGED dataVars
  /\ UNCHANGED fetchVars
  /\ UNCHANGED adminVars
  /\ UNCHANGED authVars
  /\ UNCHANGED shareVars
  /\ UNCHANGED imageVars

\* the next button: disabled on the last page
NextPage_part002 ==
  /\ Rendered_part002("home")
  /\ TotalPages_part002 > 1
  /\ currentPage # TotalPages_part002
  /\ currentPage' = Min({TotalPages_part002, currentPage + 1})
  /\ UNCHANGED <<view, selectedPostId, language, searchQuery, sortOrder>>
  /\ UNCHANGED dataVars
  /\ UNCHANGED fetchVars
  /\ UNCHANGED adminVars
  /\ UNCHANGED authVars
  /\ UNCHANGED shareVars
  /\ UNCHANGED imageVars

Clicked_part002 ==
  IF ~Rendered_part002("home") THEN {}
  ELSE LET shown == FilteredBlogs_part002
           rows  == searchResults_part002(posts, searchQuery, language)
       IN  (IF Len(shown) = 0 THEN {} ELSE {shown[1].id, shown[Len(shown)].id})
             \cup (IF Len(rows) = 0 THEN {} ELSE {rows[1].post.id})

handleArticleOpen_part002(id) ==
  /\ selectedPostId' = id
  /\ view' = "article"
  /\ searchQuery' = <<>>
  /\ currentPage' = pageAfter_part002(<<>>, sortOrder)
  /\ UNCHANGED <<language, sortOrder>>
  /\ UNCHANGED dataVars
  /\ UNCHANGED fetchVars
  /\ UNCHANGED adminVars
  /\ UNCHANGED authVars
  /\ UNCHANGED shareVars
  /\ UNCHANGED imageVars

BackToPosts_part002 ==
  /\ Rendered_part002("article")
  /\ \E i \in 1..Len(posts) : posts[i].id = selectedPostId
  /\ view' = "home"
  /\ UNCHANGED <<selectedPostId, language, searchQuery, sortOrder, currentPage>>
  /\ UNCHANGED dataVars
  /\ UNCHANGED fetchVars
  /\ UNCHANGED adminVars
  /\ UNCHANGED authVars
  /\ UNCHANGED shareVars
  /\ UNCHANGED imageVars

\* fetchData and the interval of part_002 read as those of App.tsx; no focus
\* listener is registered
NextPart002 ==
  \/ Mount
  \/ PollTick
  \/ \E f \in inflight, resp \in Responses : FetchComplete(f, resp)
  \/ \E q \in AppQueries : SetSearchQuery_part002(q)
  \/ \E o \in SortOrders : SetSortOrder_part002(o)
  \/ \E l \in Languages : SetLanguage_part002(l)
  \/ PrevPage_part002
  \/ NextPage_part002
  \/ \E id \in Clicked_part002 : handleArticleOpen_part002(id)
  \/ BackToPosts_part002

SpecPart002 == Init /\ [][NextPart002]_vars

\* ------------------------------------------------ the pipeline on its own
\* The home view once the initial fetch has delivered a list: every list of
\* RawLists, under every query, order, language and page the handlers reach.
normalizeList(raws) == validPosts([i \in 1..Len(raws) |-> JObj(raws[i], JNull)])

InitView ==
  /\ posts \in {normalizeList(raws) : raws \in RawLists}
  /\ view = "home"
  /\ selectedPostId = NULL_ID
  /\ language = "fr"
  /\ isLoading = FALSE
  /\ lastUpdated = 2
  /\ searchQuery = <<>>
  /\ sortOrder = "newest"
  /\ currentPage = 1
  /\ inflight = {}
  /\ fetchSeq = 1
  /\ now = 2
  /\ lastFetch = [id |-> 1, outcome |-> "ok", payload |-> posts]
  /\ prevFetch = NoFetch
  /\ InitDashboard
  /\ InitAuth
  /\ InitShare
  /\ InitImage

NextView ==
  \/ \E q \in Queries : SetSearchQuery(q)
  \/ \E o \in SortOrders : SetSortOrder(o)
  \/ \E l \in Languages : SetLanguage(l)
  \/ \E page \in PageButtons : handlePageChange(page)

SpecView == InitView /\ [][NextView]_vars

\* ------------------------------------- fetchData, statement by statement
\* One call of fetchData followed through its statements; the call's record
\* keeps its locals (text, the matched span, data, extractedPosts, validPosts).
Dressings == {"plain", "fenced", "tagged"}

\* the JSON text as post.md holds it: bare, in a code fence, or in a fence
\* tagged json with prose around it
Dressed(how, inner) ==
  CASE how = "plain"  -> inner
    [] how = "fenced" -> <<FENCE, WS>> \o inner \o <<WS, FENCE>>
    [] how = "tagged" -> <<TXT, WS, FENCE, JSONTAG, WS>> \o inner \o <<WS, FENCE, WS, TXT>>

\* JSON text of an object with a posts array
wrappedText(list) == <<LBRACE, POSTSKEY>> \o arrayText(list) \o <<RBRACE>>

StepLists == ListsUpTo(MaxLen - 1) \cup {LongList(n) : n \in LongLengths}
StepPosts == {RawPool[i] : i \in 1..Len(RawPool)}

\* bodies of the three shapes, and bodies with an element that is not an object
\* or with a posts member that is not an array
StepBodies ==
  {Dressed(how, arrayText(l)) : how \in Dressings, l \in StepLists}
    \cup {Dressed(how, wrappedText(l)) : how \in Dressings, l \in StepLists}
    \cup {Dressed(how, objectText(r)) : how \in Dressings, r \in StepPosts}
    \cup Bodies
    \cup { <<LBRACE, POSTSKEY, NULLTOK>> \o membersFrom(Raw1, 1) \o <<RBRACE>>,
           <<LBRACK, LBRACK, RBRACK>> \o objectText(Raw2) \o <<RBRACK>>,
           <<LBRACK, NULLTOK>> \o objectText(Raw1) \o <<RBRACK>> }

StepResponses ==
  {[rejects |-> TRUE,  ok |-> FALSE, text |-> <<>>]}
    \cup {[rejects |-> FALSE, ok |-> FALSE, text |-> <<TXT>>]}
    \cup {[rejects |-> FALSE, ok |-> TRUE, text |-> b] : b \in StepBodies}

\* a call suspended at await fetch(...)
NewCall(id, isSilent, t) ==
  [id |-> id, silent |-> isSilent, t |-> t, pc |-> "fetch", outcome |-> "none",
   text |-> <<>>, span |-> <<>>, data |-> JNull, extracted |-> <<>>, valid |-> <<>>]

\* the call moves on: f becomes g, nothing else changes
Moves(f, g) ==
  /\ inflight' = (inflight \ {f}) \cup {g}
  /\ UNCHANGED <<posts, lastUpdated, isLoading, fetchSeq, now, lastFetch, prevFetch>>
  /\ UNCHANGED viewVars
  /\ UNCHANGED adminVars
  /\ UNCHANGED authVars
  /\ UNCHANGED shareVars
  /\ UNCHANGED imageVars

Throws(f, what) == [f EXCEPT !.pc = "caught", !.outcome = what]

\* const response = await fetch(...); if (!response.ok) throw ...;
\* const text = await response.text()
AwaitResponse(f, resp) ==
  /\ f \in inflight /\ f.pc = "fetch"
  /\ Moves(f, IF resp.rejects THEN Throws(f, "network")
              ELSE IF ~resp.ok THEN Throws(f, "http")
              ELSE [f EXCEPT !.pc = "text", !.text = resp.text])

\* cleanText, codeBlockMatch, jsonMatch; if (jsonMatch) ...
MatchJson(f) ==
  /\ f \in inflight /\ f.pc = "text"
  /\ LET text  == trimTokens(f.text)
         block == codeBlockMatch(text)
         clean == IF block.matched THEN block.group ELSE text
         m     == jsonMatch(clean)
     IN  Moves(f, IF m.matched THEN [f EXCEPT !.pc = "span", !.span = m.span]
                  ELSE [f EXCEPT !.pc = "finally", !.outcome = "nospan"])

\* const data = JSON.parse(jsonMatch[0])
ParseJson(f) ==
  /\ f \in inflight /\ f.pc = "span"
  /\ LET data == JSONparse(f.span)
     IN  Moves(f, IF data.ok THEN [f EXCEPT !.pc = "data", !.data = data.val]
                  ELSE Throws(f, "syntax"))

\* extractedPosts
ExtractShape(f) ==
  /\ f \in inflight /\ f.pc = "data"
  /\ Moves(f, [f EXCEPT !.pc = "extracted", !.extracted = extractPosts(f.data)])

\* const validPosts = extractedPosts.map(...)
MapValidPosts(f) ==
  /\ f \in inflight /\ f.pc = "extracted"
  /\ Moves(f, IF \E i \in 1..Len(f.extracted) : ElementThrows(f.extracted[i])
              THEN Throws(f, "type")
              ELSE [f EXCEPT !.pc = "valid", !.valid = validPosts(f.extracted)])

\* setPosts(validPosts); setLastUpdated(new Date())
SetPosts(f) ==
  /\ f \in inflight /\ f.pc = "valid"
  /\ posts' = f.valid
  /\ lastUpdated' = now + 1
  /\ now' = now + 1
  /\ inflight' = (inflight \ {f}) \cup {[f EXCEPT !.pc = "finally", !.outcome = "ok"]}
  /\ UNCHANGED <<isLoading, fetchSeq, lastFetch, prevFetch>>
  /\ UNCHANGED viewVars
  /\ UNCHANGED adminVars
  /\ UNCHANGED authVars
  /\ UNCHANGED shareVars
  /\ UNCHANGED imageVars

\* catch (error) { console.error(...) }
CatchError(f) ==
  /\ f \in inflight /\ f.pc = "caught"
  /\ Moves(f, [f EXCEPT !.pc = "finally"])

\* finally { if (!isSilent) setIsLoading(false) }
FinallyClause(f) ==
  /\ f \in inflight /\ f.pc = "finally"
  /\ isLoading' = IF f.silent THEN isLoading ELSE FALSE
  /\ inflight' = inflight \ {f}
  /\ prevFetch' = lastFetch
  /\ lastFetch' = [id |-> f.id, outcome |-> f.outcome, payload |-> f.valid]
  /\ UNCHANGED <<posts, lastUpdated, fetchSeq, now>>
  /\ UNCHANGED viewVars
  /\ UNCHANGED adminVars
  /\ UNCHANGED authVars
  /\ UNCHANGED shareVars
  /\ UNCHANGED imageVars

\* the first call, or a poll over a list fetched before, at its await
InitSteps ==
  /\ \E isSilent \in BOOLEAN :
       /\ inflight = {NewCall(1, isSilent, 1)}
       /\ isLoading = ~isSilent
       /\ posts = IF isSilent THEN normalizeList(<<Raw1, Raw2>>) ELSE <<>>
  /\ view = "home"
  /\ selectedPostId = NULL_ID
  /\ language = "fr"
  /\ lastUpdated = 0
  /\ searchQuery = <<>>
  /\ sortOrder = "newest"
  /\ currentPage = 1
  /\ fetchSeq = 1
  /\ now = 1
  /\ lastFetch = NoFetch
  /\ prevFetch = NoFetch
  /\ InitDashboard
  /\ InitAuth
  /\ InitShare
  /\ InitImage

NextSteps ==
  \/ \E f \in inflight, resp \in StepResponses : AwaitResponse(f, resp)
  \/ \E f \in inflight : MatchJson(f)
  \/ \E f \in inflight : ParseJson(f)
  \/ \E f \in inflight : ExtractShape(f)
  \/ \E f \in inflight : MapValidPosts(f)
  \/ \E f \in inflight : SetPosts(f)
  \/ \E f \in inflight : CatchError(f)
  \/ \E f \in inflight : FinallyClause(f)

SpecSteps == InitSteps /\ [][NextSteps]_vars

\* ---------------------------------------------------------- the dashboard
\* Dashboard (components/LanguageSwitcher.tsx 70-311) as part_002 mounts it for
\* the view 'dashboard', with the handlers of renderContent (part_002 479).

\* onAdd, onDelete, onUpdate: ps is the posts of the render that made the closure
onAdd(ps, p) == <<p>> \o ps

onDelete(ps, id) ==
  LET Keep(x) == x.id # id
  IN  SelectSeq(ps, Keep)

onUpdate(ps, p) == [i \in 1..Len(ps) |-> IF ps[i].id = p.id THEN p ELSE ps[i]]

nextMissing_all(translations, from) ==
  IF from <= Len(TargetLangs) THEN from ELSE 0

\* the for loop of handleAutoTranslate from position from of targetLangs: the
\* next language with no entry in newTranslations, or 0 when the loop ends
nextMissing(translations, from) ==
  LET missing == {k \in from..Len(TargetLangs) : ~translations[TargetLangs[k]].present}
  IN  IF missing = {} THEN 0 ELSE Min(missing)

\* what gemini.translateBlogPost resolves with for a language
TranslatedText(lang) ==
  CASE lang = "en" -> <<"e", "n">> [] lang = "fr" -> <<"f", "r">> [] lang = "ht" -> <<"h", "t">>
TranslateResults(lang) == {Translation(TranslatedText(lang), <<>>, TranslatedText(lang))}

\* what gemini.generateBlogPost resolves with, and the post made of it
Generated == [title |-> <<"g">>, excerpt |-> <<"g">>, description |-> <<"g">>, content |-> <<"g">>]
newPost(generated, t) ==
  [EmptyRaw EXCEPT !.title = generated.title, !.excerpt = generated.excerpt,
                   !.description = generated.description, !.content = generated.content,
                   !.id = NumToString(t), !.author = ADMIN, !.isPublished = TRUE,
                   !.translations = NoTranslations]

Topics == {<<>>, <<"a">>}

\* a handler call as it ends
Ended(job, how, translations) ==
  [id |-> job.id, kind |-> job.kind, outcome |-> how, post |-> job.post,
   called |-> job.called, translations |-> translations]

AppUnchanged ==
  /\ UNCHANGED <<isLoading, lastUpdated>>
  /\ UNCHANGED viewVars
  /\ UNCHANGED fetchVars
  /\ UNCHANGED authVars
  /\ UNCHANGED shareVars
  /\ UNCHANGED imageVars

\* handleAutoTranslate up to its first await, or to its end when no language
\* is missing
handleAutoTranslate(post) ==
  /\ Rendered_part002("dashboard")
  /\ translatingId # post.id
  /\ jobSeq < MaxJobs
  /\ jobSeq' = jobSeq + 1
  /\ LET k == nextMissing(post.translations, 1)
     IN  IF k = 0
         THEN /\ posts' = onUpdate(posts, post)
              /\ translatingId' = NULL_ID
              /\ lastJob' = [id |-> jobSeq + 1, kind |-> "translate", outcome |-> "updated",
                             post |-> post, called |-> <<>>,
                             translations |-> post.translations]
              /\ UNCHANGED jobs
         ELSE /\ translatingId' = post.id
              /\ jobs' = jobs \cup
                   {[id |-> jobSeq + 1, kind |-> "translate", post |-> post,
                     closure |-> posts, translations |-> post.translations,
                     n |-> k, called |-> <<TargetLangs[k]>>]}
              /\ UNCHANGED <<posts, lastJob>>
  /\ UNCHANGED <<isGenerating, topic, alerts>>
  /\ AppUnchanged

TranslateRejects_keepsPartial(job) ==
  /\ job \in jobs /\ job.kind = "translate"
  /\ posts' = onUpdate(job.closure, [job.post EXCEPT !.translations = job.translations])
  /\ alerts' = alerts + 1
  /\ translatingId' = NULL_ID
  /\ jobs' = jobs \ {job}
  /\ lastJob' = Ended(job, "failed", job.translations)
  /\ UNCHANGED <<isGenerating, topic, jobSeq>>
  /\ AppUnchanged

\* the awaited translateBlogPost resolves: the loop goes on to the next await,
\* or ends with onUpdate and the finally clause
TranslateResolves(job, result) ==
  /\ job \in jobs /\ job.kind = "translate"
  /\ LET newTranslations == [job.translations EXCEPT ![TargetLangs[job.n]] = result]
         k == nextMissing(newTranslations, job.n + 1)
     IN  IF k # 0
         THEN /\ jobs' = (jobs \ {job}) \cup
                   {[job EXCEPT !.translations = newTranslations, !.n = k,
                                !.called = Append(@, TargetLangs[k])]}
              /\ UNCHANGED <<posts, translatingId, lastJob>>
         ELSE /\ posts' = onUpdate(job.closure,
                                   [job.post EXCEPT !.translations = newTranslations])
              /\ translatingId' = NULL_ID
              /\ jobs' = jobs \ {job}
              /\ lastJob' = Ended(job, "updated", newTranslations)
  /\ UNCHANGED <<isGenerating, topic, jobSeq, alerts>>
  /\ AppUnchanged

\* the awaited translateBlogPost rejects: catch (alert) and finally
TranslateRejects(job) ==
  /\ job \in jobs /\ job.kind = "translate"
  /\ alerts' = alerts + 1
  /\ translatingId' = NULL_ID
  /\ jobs' = jobs \ {job}
  /\ lastJob' = Ended(job, "failed", job.translations)
  /\ UNCHANGED <<posts, isGenerating, topic, jobSeq>>
  /\ AppUnchanged

togglePublish(post) ==
  /\ Rendered_part002("dashboard")
  /\ jobSeq < MaxJobs
  /\ jobSeq' = jobSeq + 1
  /\ posts' = onUpdate(posts, [post EXCEPT !.isPublished = ~post.isPublished])
  /\ UNCHANGED <<translatingId, isGenerating, topic, jobs, alerts, lastJob>>
  /\ AppUnchanged

\* the delete button of a row: onDelete(post.id)
ClickDelete(id) ==
  /\ Rendered_part002("dashboard")
  /\ jobSeq < MaxJobs
  /\ jobSeq' = jobSeq + 1
  /\ posts' = onDelete(posts, id)
  /\ UNCHANGED <<translatingId, isGenerating, topic, jobs, alerts, lastJob>>
  /\ AppUnchanged

\* the topic input: setTopic(e.target.value)
SetTopic(t) ==
  /\ Rendered_part002("dashboard")
  /\ t # topic
  /\ jobSeq < MaxJobs
  /\ jobSeq' = jobSeq + 1
  /\ topic' = t
  /\ UNCHANGED <<posts, translatingId, isGenerating, jobs, alerts, lastJob>>
  /\ AppUnchanged

\* handleGenerateAI up to its await; the button is disabled while generating
\* and without a topic
handleGenerateAI ==
  /\ Rendered_part002("dashboard")
  /\ topic # <<>> /\ ~isGenerating
  /\ jobSeq < MaxJobs
  /\ jobSeq' = jobSeq + 1
  /\ isGenerating' = TRUE
  /\ jobs' = jobs \cup
       {[id |-> jobSeq + 1, kind |-> "generate", post |-> EmptyRaw, closure |-> posts,
         translations |-> NoTranslations, n |-> 0, called |-> <<>>]}
  /\ UNCHANGED <<posts, translatingId, topic, alerts, lastJob>>
  /\ AppUnchanged

\* generateBlogPost resolves: the new post, onAdd, setTopic(''), finally
GenerateResolves(job) ==
  /\ job \in jobs /\ job.kind = "generate"
  /\ LET added == newPost(Generated, now + 1)
     IN  /\ posts' = onAdd(job.closure, added)
         /\ lastJob' = [Ended(job, "added", NoTranslations) EXCEPT !.post = added]
  /\ now' = now + 1
  /\ topic' = <<>>
  /\ isGenerating' = FALSE
  /\ jobs' = jobs \ {job}
  /\ UNCHANGED <<translatingId, jobSeq, alerts>>
  /\ UNCHANGED <<isLoading, lastUpdated, inflight, fetchSeq, lastFetch, prevFetch>>
  /\ UNCHANGED viewVars
  /\ UNCHANGED authVars
  /\ UNCHANGED shareVars
  /\ UNCHANGED imageVars

\* generateBlogPost rejects: catch (alert) and finally
GenerateRejects(job) ==
  /\ job \in jobs /\ job.kind = "generate"
  /\ alerts' = alerts + 1
  /\ isGenerating' = FALSE
  /\ jobs' = jobs \ {job}
  /\ lastJob' = Ended(job, "failed", NoTranslations)
  /\ UNCHANGED <<posts, translatingId, topic, jobSeq>>
  /\ AppUnchanged

\* the lists the dashboard opens on, and what a poll then gets; the dashboard
\* opens when all fetches but one have completed
AdminLists == {<<Raw1, Raw5>>, <<Raw5>>}
AdminResponses ==
  {r \in Responses : r.rejects \/ (r.ok /\ r.text = arrayText(<<Raw1, Raw2>>))}

InitAdmin ==
  /\ posts \in {normalizeList(raws) : raws \in AdminLists}
  /\ view = "dashboard"
  /\ selectedPostId = NULL_ID
  /\ language = "fr"
  /\ isLoading = FALSE
  /\ lastUpdated = 2 * (MaxFetches - 1)
  /\ searchQuery = <<>>
  /\ sortOrder = "newest"
  /\ currentPage = 1
  /\ inflight = {}
  /\ fetchSeq = MaxFetches - 1
  /\ now = 2 * (MaxFetches - 1)
  /\ lastFetch = [id |-> MaxFetches - 1, outcome |-> "ok", payload |-> posts]
  /\ prevFetch = NoFetch
  /\ InitDashboard
  /\ InitAuth
  /\ InitShare
  /\ InitImage

NextAdmin ==
  \/ \E i \in 1..Len(posts) : handleAutoTranslate(posts[i])
  \/ \E job \in {j \in jobs : j.kind = "translate"} :
       \E result \in TranslateResults(TargetLangs[job.n]) : TranslateResolves(job, result)
  \/ \E job \in jobs : TranslateRejects(job)
  \/ \E i \in 1..Len(posts) : togglePublish(posts[i])
  \/ \E i \in 1..Len(posts) : ClickDelete(posts[i].id)
  \/ \E t \in Topics : SetTopic(t)
  \/ handleGenerateAI
  \/ \E job \in jobs : GenerateResolves(job)
  \/ \E job \in jobs : GenerateRejects(job)
  \/ PollTick
  \/ \E f \in inflight, resp \in AdminResponses : FetchComplete(f, resp)

SpecAdmin == InitAdmin /\ [][NextAdmin]_vars

\* ------------------------------------------------------------ the login form
\* src/components/Auth.tsx, as part_002 mounts it for the view 'login'

\* the test of the callback, on cleanUsername and cleanPassword
validCredentials_rawPassword(u, p) ==
  toLowerCase(trim(u)) = ADMIN_LOGIN /\ p = ADMIN_LOGIN

validCredentials(u, p) ==
  toLowerCase(trim(u)) = ADMIN_LOGIN /\ trim(p) = ADMIN_LOGIN

\* the message setError is given
InvalidMessage(lang) ==
  IF lang = "fr" THEN "Identifiants invalides." ELSE "Invalid credentials."

\* the values typed into the two inputs
Usernames == {ADMIN_LOGIN, ADMIN \o <<" ">>, <<"a", "d", "m">>, <<" ">>, <<>>}
Passwords == {ADMIN_LOGIN, <<" ">> \o ADMIN_LOGIN, ADMIN, <<>>}

AuthUnchanged ==
  /\ UNCHANGED <<selectedPostId, language, searchQuery, sortOrder, currentPage>>
  /\ UNCHANGED dataVars
  /\ UNCHANGED fetchVars
  /\ UNCHANGED adminVars
  /\ UNCHANGED shareVars
  /\ UNCHANGED imageVars

\* onChange of the user name input
SetUsername(u) ==
  /\ Rendered_part002("login")
  /\ username' = u
  /\ UNCHANGED <<password, error, authIsLoading, loginTimers, submits, logins, lastSubmit>>
  /\ UNCHANGED view
  /\ AuthUnchanged

\* onChange of the password input
SetPassword(p) ==
  /\ Rendered_part002("login")
  /\ password' = p
  /\ UNCHANGED <<username, error, authIsLoading, loginTimers, submits, logins, lastSubmit>>
  /\ UNCHANGED view
  /\ AuthUnchanged

\* handleSubmit up to its setTimeout.  Both inputs are required, so the browser
\* submits nothing while one is empty, and the submit button is disabled while
\* isLoading.  The callback keeps the values of this render.
handleSubmit ==
  /\ Rendered_part002("login")
  /\ ~authIsLoading
  /\ Truthy(username) /\ Truthy(password)
  /\ submits < MaxSubmits
  /\ submits' = submits + 1
  /\ authIsLoading' = TRUE
  /\ error' = ""
  /\ loginTimers' = loginTimers \cup
       {[id |-> submits + 1, username |-> username, password |-> password,
         language |-> language]}
  /\ UNCHANGED <<username, password, logins, lastSubmit>>
  /\ UNCHANGED view
  /\ AuthUnchanged

\* the callback of the setTimeout, 400 ms later.  onLogin is setView('dashboard');
\* a state update of a form that is no longer mounted has no effect.
LoginTimer(t) ==
  /\ t \in loginTimers
  /\ loginTimers' = loginTimers \ {t}
  /\ IF validCredentials(t.username, t.password)
     THEN /\ view' = "dashboard"
          /\ logins' = logins + 1
          /\ lastSubmit' = [id |-> t.id, username |-> t.username,
                            password |-> t.password, called |-> TRUE]
          /\ UNCHANGED <<error, authIsLoading>>
     ELSE /\ error' = IF view = "login" THEN InvalidMessage(t.language) ELSE error
          /\ authIsLoading' = IF view = "login" THEN FALSE ELSE authIsLoading
          /\ lastSubmit' = [id |-> t.id, username |-> t.username,
                            password |-> t.password, called |-> FALSE]
          /\ UNCHANGED <<view, logins>>
  /\ UNCHANGED <<username, password, submits>>
  /\ AuthUnchanged

\* onBack of the form: setView('home')
onBack ==
  /\ Rendered_part002("login")
  /\ view' = "home"
  /\ UNCHANGED authVars
  /\ AuthUnchanged

\* the application with the login form shown, in either language
InitLogin ==
  /\ posts = normalizeList(<<Raw1, Raw5>>)
  /\ view = "login"
  /\ selectedPostId = NULL_ID
  /\ language \in Languages
  /\ isLoading = FALSE
  /\ lastUpdated = 2
  /\ searchQuery = <<>>
  /\ sortOrder = "newest"
  /\ currentPage = 1
  /\ inflight = {}
  /\ fetchSeq = 1
  /\ now = 2
  /\ lastFetch = [id |-> 1, outcome |-> "ok", payload |-> posts]
  /\ prevFetch = NoFetch
  /\ InitDashboard
  /\ InitAuth
  /\ InitShare
  /\ InitImage

NextLogin ==
  \/ \E u \in Usernames : SetUsername(u)
  \/ \E p \in Passwords : SetPassword(p)
  \/ handleSubmit
  \/ \E t \in loginTimers : LoginTimer(t)
  \/ onBack

SpecLogin == InitLogin /\ [][NextLogin]_vars

\* ------------------------------------------------- share actions and the toast
\* showToast of App.tsx: the message is shown and a timer of 3 s is set, which
\* nothing ever cancels
showToast(message) ==
  /\ toast' = message
  /\ toastSeq' = toastSeq + 1
  /\ toastBy' = toastSeq + 1
  /\ toastTimers' = toastTimers \cup {toastSeq + 1}

ShareUnchanged ==
  /\ UNCHANGED viewVars
  /\ UNCHANGED dataVars
  /\ UNCHANGED fetchVars
  /\ UNCHANGED adminVars
  /\ UNCHANGED authVars
  /\ UNCHANGED imageVars

\* the callback of a timer of showToast: setToast(null).  The timers all wait
\* 3 s, so they run in the order they were set.
ToastTimer ==
  /\ toastTimers # {}
  /\ toast' = NO_TOAST
  /\ toastTimers' = toastTimers \ {Min(toastTimers)}
  /\ UNCHANGED <<toastSeq, toastBy, shares, shareSeq, clipboard, lastShare>>
  /\ ShareUnchanged

\* the three handlers: handleShare of renderArticle, of BlogCard and of the
\* second BlogCard of the same file
Handlers == {"article", "card", "card2"}

\* the platforms of the buttons: twitter and linkedin take the path of
\* facebook in every handler, tiktok the path of instagram
Platforms(handler) ==
  IF handler = "card" THEN {"native", "facebook", "whatsapp", "copy"}
  ELSE {"native", "facebook", "whatsapp", "instagram", "copy"}

CopiedMessage(lang) == IF lang = "fr" THEN "Lien copie !" ELSE "Link copied!"

\* whether the handler, once the URL is on the clipboard, comes to showToast:
\* win is what window.open returns.  For whatsapp the handler opens the link or,
\* on a mobile browser, the application, and shows nothing in either case.
toastsAfterCopy(handler, platform, win) ==
  CASE handler = "card" -> TRUE
    [] handler = "article" ->
         CASE platform = "facebook" -> ~win
           [] platform = "whatsapp" -> FALSE
           [] OTHER -> TRUE
    [] handler = "card2" ->
         CASE platform = "facebook" -> ~win
           [] platform = "whatsapp" -> FALSE
           [] platform \in {"instagram", "copy"} -> TRUE
           [] OTHER -> FALSE

\* what happens when navigator.share rejects: renderArticle returns, the cards
\* go on to the clipboard
afterShareRejects(handler) ==
  IF handler = "article" THEN "return" ELSE "clipboard"

EndedShare(s, shared, copied, toasted) ==
  [id |-> s.id, handler |-> s.handler, platform |-> s.platform, shared |-> shared,
   copied |-> copied, toasted |-> toasted]

\* the handlers a click can reach: the article's when a post is shown, the
\* cards' when the page of the home view has cards
Reachable(handler) ==
  IF handler = "article"
  THEN Rendered("article") /\ \E i \in 1..Len(posts) : posts[i].id = selectedPostId
  ELSE Rendered("home") /\ Len(FilteredBlogs) > 0

\* handleShare up to its first await: navigator.share for the native button
\* when the browser has it (available), else navigator.clipboard.writeText
handleShare(handler, platform, available) ==
  /\ Reachable(handler)
  /\ shareSeq < MaxShares
  /\ Cardinality(shares) < MaxInFlight
  /\ shareSeq' = shareSeq + 1
  /\ shares' = shares \cup
       {[id |-> shareSeq + 1, handler |-> handler, platform |-> platform,
         language |-> language, shared |-> "none",
         pc |-> IF platform = "native" /\ available THEN "share" ELSE "clipboard"]}
  /\ UNCHANGED <<toast, toastTimers, toastSeq, toastBy, clipboard, lastShare>>
  /\ ShareUnchanged

\* navigator.share resolves: the handler returns
ShareResolves(s) ==
  /\ s \in shares
  /\ s.pc = "share"
  /\ shares' = shares \ {s}
  /\ lastShare' = EndedShare(s, "resolved", "none", FALSE)
  /\ UNCHANGED <<toast, toastTimers, toastSeq, toastBy, shareSeq, clipboard>>
  /\ ShareUnchanged

\* navigator.share rejects: the sheet failed, or the user dismissed it
ShareRejects(s) ==
  /\ s \in shares
  /\ s.pc = "share"
  /\ IF afterShareRejects(s.handler) = "return"
     THEN /\ shares' = shares \ {s}
          /\ lastShare' = EndedShare(s, "rejected", "none", FALSE)
     ELSE /\ shares' = (shares \ {s}) \cup {[s EXCEPT !.pc = "clipboard", !.shared = "rejected"]}
          /\ UNCHANGED lastShare
  /\ UNCHANGED <<toast, toastTimers, toastSeq, toastBy, shareSeq, clipboard>>
  /\ ShareUnchanged

\* navigator.clipboard.writeText resolves, and the handler runs to its end
ClipboardResolves(s, win) ==
  /\ s \in shares
  /\ s.pc = "clipboard"
  /\ shares' = shares \ {s}
  /\ clipboard' = clipboard + 1
  /\ LET toasts == toastsAfterCopy(s.handler, s.platform, win)
     IN  /\ IF toasts THEN showToast(CopiedMessage(s.language))
                      ELSE UNCHANGED <<toast, toastTimers, toastSeq, toastBy>>
         /\ lastShare' = EndedShare(s, s.shared, "written", toasts)
  /\ UNCHANGED shareSeq
  /\ ShareUnchanged

\* navigator.clipboard.writeText rejects: nothing catches it, the handler ends
ClipboardRejects(s) ==
  /\ s \in shares
  /\ s.pc = "clipboard"
  /\ shares' = shares \ {s}
  /\ lastShare' = EndedShare(s, s.shared, "rejected", FALSE)
  /\ UNCHANGED <<toast, toastTimers, toastSeq, toastBy, shareSeq, clipboard>>
  /\ ShareUnchanged

\* the application with its posts fetched, showing the home view or an
\* article, in either language; the polling is left out
InitShared ==
  /\ posts = normalizeList(<<Raw1, Raw2>>)
  /\ view \in {"home", "article"}
  /\ selectedPostId = IF view = "article" THEN posts[1].id ELSE NULL_ID
  /\ language \in Languages
  /\ isLoading = FALSE
  /\ lastUpdated = 2 * MaxFetches
  /\ searchQuery = <<>>
  /\ sortOrder = "newest"
  /\ currentPage = 1
  /\ inflight = {}
  /\ fetchSeq = MaxFetches
  /\ now = 2 * MaxFetches
  /\ lastFetch = [id |-> MaxFetches, outcome |-> "ok", payload |-> posts]
  /\ prevFetch = NoFetch
  /\ InitDashboard
  /\ InitAuth
  /\ InitShare
  /\ InitImage

NextShare ==
  \/ \E handler \in Handlers :
       \E platform \in Platforms(handler), available \in BOOLEAN :
         handleShare(handler, platform, available)
  \/ \E s \in shares : ShareResolves(s)
  \/ \E s \in shares : ShareRejects(s)
  \/ \E s \in shares, win \in BOOLEAN : ClipboardResolves(s, win)
  \/ \E s \in shares : ClipboardRejects(s)
  \/ ToastTimer

SpecShare == InitShared /\ [][NextShare]_vars

\* ------------------------------------------------------------ getPostImage
\* src/constants.tsx.  A 32-bit integer is kept as its signed value and worked
\* on as two 16-bit halves, so that no intermediate result leaves 32 bits.
HALF == 65536

DEFAULT_BLOG_IMAGES == <<"d1.jpg", "d2.jpg", "d3.jpg", "d4.png">>

LowerLetters ==
  <<"a", "b", "c", "d", "e", "f", "g", "h", "i", "j", "k", "l", "m",
    "n", "o", "p", "q", "r", "s", "t", "u", "v", "w", "x", "y", "z">>

\* String.prototype.charCodeAt for the digits, the lower-case letters, '-' and ' '
charCode(c) ==
  IF \E n \in 0..9 : Digit(n) = c THEN 48 + (CHOOSE n \in 0..9 : Digit(n) = c)
  ELSE IF \E k \in 1..26 : LowerLetters[k] = c
       THEN 96 + (CHOOSE k \in 1..26 : LowerLetters[k] = c)
  ELSE IF c = "-" THEN 45 ELSE 32

\* the bit pattern of a signed 32-bit value, and back (ToInt32)
toWord(h)   == [hi |-> (h \div HALF) % HALF, lo |-> h % HALF]
fromWord(w) == (IF w.hi >= HALF \div 2 THEN w.hi - HALF ELSE w.hi) * HALF + w.lo

\* hash << 5
shl5(h) ==
  LET w  == toWord(h)
      lo == w.lo * 32
  IN  fromWord([hi |-> (w.hi * 32 + lo \div HALF) % HALF, lo |-> lo % HALF])

\* one turn of the loop: hash = ((hash << 5) - hash) + c; hash |= 0.  The
\* difference and the sum are exact (they are doubles), |= 0 takes them
\* modulo 2^32.
hashStep(h, c) ==
  LET a  == toWord(shl5(h))
      b  == toWord(h)
      lo == a.lo - b.lo + c
  IN  fromWord([hi |-> (a.hi - b.hi + lo \div HALF) % HALF, lo |-> lo % HALF])

\* hash % length, without Math.abs: the remainder has the sign of hash
pickIndex_noAbs(h, n) ==
  IF h >= 0 THEN h % n ELSE 0 - ((n - (h % n)) % n)

\* Math.abs(hash) % length: the absolute value of the least 32-bit integer is
\* 2^31, which a double holds
pickIndex(h, n) ==
  LET w   == toWord(h)
      mag == IF w.hi < HALF \div 2 THEN w
             ELSE IF w.lo = 0 THEN [hi |-> HALF - w.hi, lo |-> 0]
             ELSE [hi |-> HALF - 1 - w.hi, lo |-> HALF - w.lo]
  IN  ((mag.hi % n) * (HALF % n) + mag.lo) % n

\* post.imageUrl && post.imageUrl.trim() !== ""
hasImage(post) == Truthy(post.imageUrl) /\ trim(post.imageUrl) # <<>>

ImageUnchanged ==
  /\ UNCHANGED viewVars
  /\ UNCHANGED dataVars
  /\ UNCHANGED fetchVars
  /\ UNCHANGED adminVars
  /\ UNCHANGED authVars
  /\ UNCHANGED shareVars

\* getPostImage up to its loop
CheckImageUrl ==
  /\ imagePc = "call"
  /\ IF hasImage(imagePost)
     THEN /\ postImage' = [from |-> "imageUrl", url |-> imagePost.imageUrl, index |-> 0]
          /\ imagePc' = "done"
          /\ UNCHANGED idString
     ELSE /\ idString' = Or2(imagePost.id, <<"0">>)
          /\ imagePc' = "loop"
          /\ UNCHANGED postImage
  /\ UNCHANGED <<imagePost, hash, hashPos>>
  /\ ImageUnchanged

\* one turn of the loop
HashStep ==
  /\ imagePc = "loop"
  /\ hashPos < Len(idString)
  /\ hash' = hashStep(hash, charCode(idString[hashPos + 1]))
  /\ hashPos' = hashPos + 1
  /\ UNCHANGED <<imagePost, imagePc, idString, postImage>>
  /\ ImageUnchanged

\* after the loop: the index, and the image returned
PickImage ==
  /\ imagePc = "loop"
  /\ hashPos = Len(idString)
  /\ postImage' = [from |-> "fallback", url |-> <<>>,
                   index |-> pickIndex(hash, Len(DEFAULT_BLOG_IMAGES))]
  /\ imagePc' = "done"
  /\ UNCHANGED <<imagePost, idString, hash, hashPos>>
  /\ ImageUnchanged

\* the ids and the image URLs of the posts getPostImage is called for
ImageIds ==
  { <<>>, <<"0">>, <<"x">>, <<"y">>, <<"w">>, PostIdx(1), PostIdx(2), PostIdx(10),
    <<"z", "z", "z", "z", "z", "z">>,
    <<"9", "i", "a", "z", "i", "p", "p">>,
    <<"6", "0", "a", "f", "j", "w", "l">>,
    <<"a", "b", "c", "d", "e", "f", "g">>,
    <<"m", "i", "c", "r", "o", "-", "1">> }
ImageUrls == {<<>>, <<" ">>, <<"u">>, <<" ", "u">>}

InitImages ==
  /\ posts = <<>>
  /\ view = "home"
  /\ selectedPostId = NULL_ID
  /\ language = "fr"
  /\ isLoading = FALSE
  /\ lastUpdated = 2
  /\ searchQuery = <<>>
  /\ sortOrder = "newest"
  /\ currentPage = 1
  /\ inflight = {}
  /\ fetchSeq = 1
  /\ now = 2
  /\ lastFetch = [id |-> 1, outcome |-> "ok", payload |-> <<>>]
  /\ prevFetch = NoFetch
  /\ InitDashboard
  /\ InitAuth
  /\ InitShare
  /\ imagePost \in {ImagePost(u, id) : u \in ImageUrls, id \in ImageIds}
  /\ imagePc = "call"
  /\ idString = <<>>
  /\ hash = 0
  /\ hashPos = 0
  /\ postImage = NoImage

NextImages ==
  \/ CheckImageUrl
  \/ HashStep
  \/ PickImage

SpecImages == InitImages /\ [][NextImages]_vars

\* ------------------------------------------------- the snippet of a match
\* The home view with posts whose content is longer than the window of a
\* snippet, under queries that match at its start, in its middle and at its end.
Rep(c, n) == [k \in 1..n |-> c]

SnippetRaw(id, content, content_en) ==
  [EmptyRaw EXCEPT !.id = id, !.author = <<"x">>, !.publicationDate = "2024-01-01",
                   !.title = <<"x">>, !.content = content, !.content_en = content_en]

SnippetPool ==
  << \* the window is cut at both ends
     SnippetRaw(<<"1">>, Rep("c", SNIPPET_RADIUS + 5) \o <<"B">> \o Rep("c", SNIPPET_RADIUS + 5),
                <<>>),
     \* the window is the whole content, to the character
     SnippetRaw(<<"2">>, Rep("c", SNIPPET_RADIUS) \o <<"b">> \o Rep("c", SNIPPET_RADIUS), <<>>),
     \* one character is cut at either end; runs of white space around the match
     SnippetRaw(<<"3">>, Rep("c", SNIPPET_RADIUS - 2) \o <<"\n", "\n", " ", "b", "\r", "\n">>
                           \o Rep("c", SNIPPET_RADIUS - 1), <<>>),
     \* a short content, and an English one that has no match
     SnippetRaw(<<"4">>, <<"a", " ", "\n", "b", "B">>, <<"a", "a">>),
     \* the query is in the author, or in the title, as well
     [SnippetRaw(<<"5">>, <<"b", "c">>, <<>>) EXCEPT !.author = <<"B">>] >>

SnippetLists ==
  {<<SnippetPool[k]>> : k \in 1..Len(SnippetPool)}
    \cup {<<SnippetPool[k], SnippetPool[l]>> : k, l \in 1..Len(SnippetPool)}

SnippetQueries == {<<>>, <<" ">>, <<"b">>, <<"B">>, <<"c", "b">>, <<"c">>, <<"x">>, <<"\n">>}

InitSnippet ==
  /\ posts \in {normalizeList(raws) : raws \in SnippetLists}
  /\ view = "home"
  /\ selectedPostId = NULL_ID
  /\ language = "fr"
  /\ isLoading = FALSE
  /\ lastUpdated = 2
  /\ searchQuery = <<>>
  /\ sortOrder = "newest"
  /\ currentPage = 1
  /\ inflight = {}
  /\ fetchSeq = 1
  /\ now = 2
  /\ lastFetch = [id |-> 1, outcome |-> "ok", payload |-> posts]
  /\ prevFetch = NoFetch
  /\ InitDashboard
  /\ InitAuth
  /\ InitShare
  /\ InitImage

NextSnippet ==
  \/ \E q \in SnippetQueries : SetSearchQuery(q)
  \/ \E l \in Languages : SetLanguage(l)

SpecSnippet == InitSnippet /\ [][NextSnippet]_vars

\* ---------------------------------------------------------------- claims
Failed(o) == o \in {"network", "http", "nospan", "syntax", "type"}

\* C1: a content fetch that fails for any reason (the request rejects, the status
\* is not OK, the body has no bracket span, the span is not JSON, an element
\* cannot be normalized) leaves the post list and lastUpdated as they were, and
\* starts no fetch of its own: the next poll is the only retry.
C1_FailedFetchLeavesState ==
  [][(lastFetch' # lastFetch /\ Failed(lastFetch'.outcome))
       => /\ posts' = posts
          /\ lastUpdated' = lastUpdated
          /\ fetchSeq' = fetchSeq
          /\ inflight' \subseteq inflight]_vars

\* a poll got a body that is not JSON after an earlier fetch had set a list
C1_Witness ==
  /\ lastFetch.outcome = "syntax"
  /\ prevFetch.outcome = "ok"
  /\ Len(posts) > 0
  /\ posts = prevFetch.payload
  /\ lastUpdated < now

\* C2: of two overlapping fetches neither is cancelled (a call leaves the set of
\* calls in flight only by completing), and the post list is the normalized
\* payload of the successful call that completed last, whichever started first.
C2_LastCompletedWins ==
  /\ [](lastFetch.outcome = "ok" => posts = lastFetch.payload)
  /\ [][\A f \in inflight : f \notin inflight' => lastFetch'.id = f.id]_vars

\* the call that started first completed last, after the later call had set
\* another list
C2_Witness ==
  /\ inflight = {}
  /\ lastFetch.outcome = "ok"
  /\ prevFetch.outcome = "ok"
  /\ lastFetch.id < prevFetch.id
  /\ lastFetch.payload # prevFetch.payload
  /\ posts = lastFetch.payload

\* C3: whenever searchQuery, sortOrder or the language changes to another value,
\* currentPage is 1 afterwards.
C3_PageResetOnChange ==
  [][(searchQuery' # searchQuery \/ sortOrder' # sortOrder \/ language' # language)
       => currentPage' = 1]_vars

\* C4 as stated: totalPages is ceil(count / POSTS_PER_PAGE) and at least 1, also
\* for an empty working set.
C4_AtLeastOnePage ==
  LET n == Len(AllFilteredBlogs)
  IN  /\ TotalPages * POSTS_PER_PAGE >= n
      /\ (TotalPages - 1) * POSTS_PER_PAGE < n
      /\ TotalPages >= 1

\* C4 (amended): totalPages is ceil(count / POSTS_PER_PAGE), the least number of
\* pages of POSTS_PER_PAGE posts that hold the working set: 0 for an empty
\* working set, at least 1 otherwise.
C4_TotalPages ==
  LET n == Len(AllFilteredBlogs)
  IN  /\ TotalPages \in 0..n
      /\ TotalPages * POSTS_PER_PAGE >= n
      /\ \A k \in 0..n : k * POSTS_PER_PAGE >= n => k >= TotalPages
      /\ (n = 0 <=> TotalPages = 0)

\* a query that matches none of the posts fetched
C4_Witness ==
  /\ Len(posts) > 0
  /\ Truthy(trim(searchQuery))
  /\ Len(AllFilteredBlogs) = 0
  /\ TotalPages = 0

RECURSIVE pagesFrom(_, _, _)
pagesFrom(all, k, total) ==
  IF k > total THEN <<>> ELSE pageOf(all, k) \o pagesFrom(all, k + 1, total)

\* C5: page k of 1..totalPages holds elements (k-1)*pageSize .. min(k*pageSize,
\* count)-1 of the sorted working set, in order: the pages partition it, every
\* page but the last holds pageSize posts and the last holds the rest.
C5_PagesPartition ==
  LET all == AllFilteredBlogs
      n   == Len(all)
  IN  /\ \A k \in 1..TotalPages :
           LET shown == pageOf(all, k)
           IN  /\ Len(shown) = IF k < TotalPages THEN POSTS_PER_PAGE
                               ELSE n - (TotalPages - 1) * POSTS_PER_PAGE
               /\ Len(shown) >= 1
               /\ \A i \in 1..Len(shown) : shown[i] = all[(k - 1) * POSTS_PER_PAGE + i]
      /\ pagesFrom(all, 1, TotalPages) = all
      /\ currentPage \in 1..TotalPages
           => FilteredBlogs = pageOf(all, currentPage)

\* 13 posts: 3 pages, and page 3 shows the one post left
C5_Witness ==
  /\ Len(AllFilteredBlogs) = 2 * POSTS_PER_PAGE + 1
  /\ TotalPages = 3
  /\ currentPage = 3
  /\ FilteredBlogs = <<AllFilteredBlogs[2 * POSTS_PER_PAGE + 1]>>

SortKey(p) == parseDate(p.publicationDate)

\* the posts of list with the sort key k, in their order
WithKey(list, k) ==
  LET HasKey(p) == SortKey(p) = k
  IN  SelectSeq(list, HasKey)

\* C6: the sorted working set is a permutation of the working set, ordered by
\* parsed date (descending for newest, ascending for oldest), and posts of equal
\* parsed date keep their order: for each date, the posts of that date are the
\* same sequence before and after.
C6_StableSortByDate ==
  LET base   == BaseList
      sorted == AllFilteredBlogs
  IN  /\ Len(sorted) = Len(base)
      /\ \A i \in 1..Len(sorted), j \in 1..Len(sorted) :
           i < j => IF sortOrder = "newest"
                    THEN SortKey(sorted[i]) >= SortKey(sorted[j])
                    ELSE SortKey(sorted[i]) <= SortKey(sorted[j])
      /\ \A i \in 1..Len(base) :
           WithKey(sorted, SortKey(base[i])) = WithKey(base, SortKey(base[i]))

\* two different posts of one date behind a post that sorts after them
C6_Witness ==
  LET base == BaseList
  IN  /\ AllFilteredBlogs # base
      /\ \E i \in 1..Len(base), j \in 1..Len(base) :
           i < j /\ base[i] # base[j] /\ SortKey(base[i]) = SortKey(base[j])

Unparseable(p) == ParseJSDate(p.publicationDate).nan

\* C7: a post whose date cannot be parsed sorts as the oldest: after every post
\* with a parseable date in newest order, before every one in oldest order.
C7_UnparseableIsOldest ==
  LET sorted == AllFilteredBlogs
  IN  \A i \in 1..Len(sorted), j \in 1..Len(sorted) :
        (Unparseable(sorted[i]) /\ ~Unparseable(sorted[j]))
          => IF sortOrder = "newest" THEN j < i ELSE i < j

Blank(q) == \A i \in 1..Len(q) : q[i] \in {" ", "\n"}

\* C8: for an empty or all-white-space query the match list is empty and the
\* working set that is sorted and paginated is the whole post list; for any
\* other query the working set is the posts of the match list, in its order.
C8_WorkingSet ==
  /\ Len(AllFilteredBlogs) = Len(BaseList)
  /\ IF Blank(searchQuery)
     THEN SearchResults = <<>> /\ BaseList = posts
     ELSE /\ Len(BaseList) = Len(SearchResults)
          /\ \A i \in 1..Len(BaseList) : BaseList[i] = SearchResults[i].post

\* a query of one space over a list in which a text holds a space
C8_Witness ==
  /\ searchQuery = <<" ">>
  /\ \E i \in 1..Len(posts) : includes(posts[i].title, <<" ">>)
  /\ SearchResults = <<>>
  /\ BaseList = posts

\* q occurs in text when case is ignored
CIContains(text, q) ==
  \E off \in 0..(Len(text) - Len(q)) :
    \A k \in 1..Len(q) : toLowerChar(text[off + k]) = toLowerChar(q[k])

InAuthor(p, q)      == CIContains(p.author, q)
InField(p, q, fld)  == CIContains(getLangField(p, fld, language), q)
Matches(p, q) ==
  InAuthor(p, q) \/ InField(p, q, "title") \/ InField(p, q, "description")
    \/ InField(p, q, "content")

\* C9: for a non-blank query the match list holds exactly the posts in which
\* the query occurs, case ignored, in the author or in the title, description or
\* content resolved for the language; each once, in the order of the post list.
C9_MatchList ==
  ~Blank(searchQuery) =>
    LET IsMatch(p) == Matches(p, searchQuery)
        rows == SearchResults
    IN  [i \in 1..Len(rows) |-> rows[i].post] = SelectSeq(posts, IsMatch)

\* an upper-case query that some posts match, through lower-case text, and
\* others do not
C9_Witness ==
  /\ searchQuery = <<"A">>
  /\ Len(SearchResults) >= 2
  /\ Len(SearchResults) < Len(posts)
  /\ \E i \in 1..Len(SearchResults) :
       LET p == SearchResults[i].post
       IN  ~includes(p.author, <<"A">>) /\ includes(p.author, <<"a">>)

\* the first field, in the order author, title, description, content, in which
\* the query occurs
FirstField(p, q) ==
  IF InAuthor(p, q) THEN "author"
  ELSE IF InField(p, q, "title") THEN "title"
  ELSE IF InField(p, q, "description") THEN "description"
  ELSE "content"

\* C10: the matched field reported for a match is the first of author, title,
\* description, content in which the query occurs; by the searchResults of
\* App.tsx and by that of part_003.
C10_FirstFieldInPriority ==
  /\ \A i \in 1..Len(SearchResults) :
       SearchResults[i].type = FirstField(SearchResults[i].post, searchQuery)
  /\ LET rows == searchResults_part003(posts, searchQuery, language)
     IN  \A i \in 1..Len(rows) : rows[i].type = FirstField(rows[i].post, searchQuery)

\* C11: getLangField(post, field) for a language returns the member
\* field_language when it is present and not empty, otherwise the base member,
\* otherwise the empty string.
C11_ResolveField ==
  \A i \in 1..Len(posts), field \in Fields, lang \in Languages :
    LET p        == posts[i]
        suffixed == p[LangKey(field, lang)]
        resolved == getLangField(p, field, lang)
    IN  /\ suffixed # <<>> => resolved = suffixed
        /\ (suffixed = <<>> /\ p[field] # <<>>) => resolved = p[field]
        /\ (suffixed = <<>> /\ p[field] = <<>>) => resolved = <<>>

\* a post with a title and a French title and no English one, read in English
C11_Witness ==
  /\ language = "en"
  /\ \E i \in 1..Len(posts) :
       LET p == posts[i]
       IN  /\ p.title_fr # <<>> /\ p.title_en = <<>> /\ p.title # p.title_fr
           /\ getLangField(p, "title", "fr") = p.title_fr
           /\ getLangField(p, "title", language) = p.title

\* C12: when a post has no member field_language but has a translation entry
\* for the language (post.translations[language]), the text shown for the field
\* is the entry's, in preference to the base member.
C12_TranslationOverride ==
  \A i \in 1..Len(posts), field \in {"title", "content"}, lang \in Languages :
    LET p == posts[i]
    IN  (p[LangKey(field, lang)] = <<>> /\ p.translations[lang].present)
          => getLangField(p, field, lang) = p.translations[lang][field]

\* the members a normalized post must have to be displayed
Populated(p) ==
  /\ p.id # <<>> /\ p.author # <<>> /\ p.publicationDate # ""
  /\ p.readTimeMinutes # 0 /\ p.title # <<>>

\* C13: normalization is total: whatever the elements of the extracted list
\* are, the map completes without raising and yields one populated record per
\* element, in order.
C13_NormalizationTotal ==
  \A f \in inflight :
    /\ f.outcome # "type"
    /\ f.pc = "valid" =>
         /\ Len(f.valid) = Len(f.extracted)
         /\ \A i \in 1..Len(f.valid) : Populated(f.valid[i])

DigitChars == <<"0", "1", "2", "3", "4", "5", "6", "7", "8", "9">>
Decimal(n) ==
  IF n < 10 THEN <<DigitChars[n + 1]>>
  ELSE <<DigitChars[(n \div 10) + 1], DigitChars[(n % 10) + 1]>>
IndexId(n) == <<"p", "o", "s", "t", "-">> \o Decimal(n)

\* the id the payload supplies for an element, or none
SuppliedId(e) == IF e.kind = "object" THEN e.members.id ELSE <<>>

\* C14: every normalized post has a non-empty id: the id its element supplies,
\* otherwise post-<index> for the element's zero-based position; and these are
\* the ids of the post list once the call has set it.
C14_IdAssigned ==
  \A f \in inflight :
    /\ f.pc = "valid" =>
         \A i \in 1..Len(f.valid) :
           /\ f.valid[i].id # <<>>
           /\ f.valid[i].id = IF SuppliedId(f.extracted[i]) # <<>>
                              THEN SuppliedId(f.extracted[i]) ELSE IndexId(i - 1)
    /\ (f.pc = "finally" /\ f.outcome = "ok") => posts = f.valid

\* a payload that supplies an id for one element and none for its second
C14_Witness ==
  \E f \in inflight :
    /\ f.pc = "finally" /\ f.outcome = "ok" /\ posts = f.valid
    /\ Len(posts) >= 2
    /\ SuppliedId(f.extracted[1]) # <<>> /\ posts[1].id = SuppliedId(f.extracted[1])
    /\ SuppliedId(f.extracted[2]) = <<>> /\ posts[2].id = <<"p", "o", "s", "t", "-", "1">>

\* C15: no two posts of the post list have the same id.
C15_UniqueIds ==
  \A i \in 1..Len(posts), j \in 1..Len(posts) : i # j => posts[i].id # posts[j].id

\* C16: every post of the post list has readTimeMinutes >= 1.
C16_ReadTimePositive ==
  \A i \in 1..Len(posts) : posts[i].readTimeMinutes >= 1

\* C17: normalizing the post list again changes nothing: the same length, the
\* same order, the same value of every member.
C17_Idempotent ==
  LET again == normalizeList(posts)
  IN  /\ Len(again) = Len(posts)
      /\ \A i \in 1..Len(posts) : again[i] = posts[i]

\* a list in which the first pass supplied an id, an author and a title
C17_Witness ==
  /\ Len(posts) >= 2
  /\ \E i \in 1..Len(posts) : posts[i].id = IndexId(i - 1)
  /\ \E i \in 1..Len(posts) :
       posts[i].author = ADMIN /\ posts[i].title # <<>> /\ posts[i].title = posts[i].title_en
  /\ normalizeList(posts) = posts

\* the post objects of an extracted list
MembersOf(extracted) == [i \in 1..Len(extracted) |-> extracted[i].members]

\* the texts of the three shapes, each with the list it must yield
ShapeTexts ==
  {[text |-> Dressed(how, arrayText(l)), list |-> l] : how \in Dressings, l \in StepLists}
    \cup {[text |-> Dressed(how, wrappedText(l)), list |-> l] :
            how \in Dressings, l \in StepLists}
    \cup {[text |-> Dressed(how, objectText(r)), list |-> <<r>>] :
            how \in Dressings, r \in StepPosts}

\* C18: the parsed payload becomes a list in all three shapes: the text of a
\* JSON array yields its elements, the text of an object with a posts array
\* yields that array's elements, the text of any other single object yields that
\* object alone; bare or inside a code fence.
C18_ThreeShapes ==
  \A f \in inflight :
    f.pc = "extracted" =>
      \A shape \in ShapeTexts :
        f.text = shape.text => MembersOf(f.extracted) = shape.list

\* an object with a posts array of two posts, inside a tagged code fence
C18_Witness ==
  \E f \in inflight :
    /\ f.pc = "extracted"
    /\ f.text = Dressed("tagged", wrappedText(<<Raw1, Raw3>>))
    /\ f.data.kind = "object"
    /\ MembersOf(f.extracted) = <<Raw1, Raw3>>

\* the target languages a post has no translation for, in the order of targetLangs
Missing(post) ==
  LET Absent(lang) == ~post.translations[lang].present
  IN  SelectSeq(TargetLangs, Absent)

TranslateCalls == {j \in jobs : j.kind = "translate"}

C20_TranslateFailure ==
  [][(lastJob' # lastJob /\ lastJob'.kind = "translate" /\ lastJob'.outcome = "failed")
       => /\ posts' = posts
          /\ alerts' = alerts + 1
          /\ translatingId' = NULL_ID
          /\ jobSeq' = jobSeq
          /\ jobs' \subseteq jobs
          /\ \A j \in jobs' : j.id # lastJob'.id]_vars

\* the call for en resolved, the call for fr failed, ht was never called for
C20_Witness ==
  /\ lastJob.kind = "translate" /\ lastJob.outcome = "failed"
  /\ lastJob.called = <<"en", "fr">>
  /\ Missing(lastJob.post) = <<"en", "fr", "ht">>
  /\ lastJob.translations.en.present
  /\ alerts = 1
  /\ translatingId = NULL_ID
  /\ \E i \in 1..Len(posts) : posts[i] = lastJob.post

\* a call of fetchData that is still at its await while a call started after it
\* has completed and set the list
HungBehind ==
  \E f \in inflight : f.id < lastFetch.id /\ lastFetch.outcome = "ok"

\* C21: a fetch that never completes, the initial one included, does not block
\* the rest of the interface: once a later poll has completed and set the post
\* list, the list view (or the article view) is rendered, so that the inputs
\* of the user take effect, whatever call is still pending.
C21_HungFetchDoesNotBlock ==
  HungBehind => ~isLoading

\* s without its leading and trailing white space
RECURSIVE Stripped(_)
Stripped(s) ==
  IF s = <<>> THEN s
  ELSE IF IsSpace(Head(s)) THEN Stripped(Tail(s))
  ELSE IF IsSpace(s[Len(s)]) THEN Stripped(SubSeq(s, 1, Len(s) - 1))
  ELSE s

\* the submitted values are admin / admin: the user name in any letter case
IsAdminAdmin(u, p) ==
  LET name == Stripped(u)
  IN  /\ Len(name) = Len(ADMIN_LOGIN)
      /\ \A i \in 1..Len(name) : toLowerChar(name[i]) = ADMIN_LOGIN[i]
      /\ Stripped(p) = ADMIN_LOGIN

\* C22: a submission of the login form calls onLogin exactly when its trimmed,
\* lower-cased user name is admin and its trimmed password is admin.  Any other
\* submission calls nothing, sets the error of the form and enables the form
\* again, whatever the number of submissions that failed before it; no other
\* step calls onLogin.
C22_LoginOnlyForAdmin ==
  [][IF lastSubmit' # lastSubmit
     THEN LET s == lastSubmit'
          IN  /\ s.called <=> IsAdminAdmin(s.username, s.password)
              /\ s.id \in 1..submits
              /\ IF s.called
                 THEN logins' = logins + 1 /\ view' = "dashboard"
                 ELSE /\ logins' = logins
                      /\ view' = view
                      /\ view = "login"
                           => /\ error' \in {InvalidMessage(l) : l \in Languages}
                              /\ ~authIsLoading'
     ELSE logins' = logins]_vars

\* two submissions failed, the third, of 'Admin ' and ' admin', logged in
C22_Witness ==
  /\ lastSubmit.id = 3
  /\ lastSubmit.called
  /\ lastSubmit.username = ADMIN \o <<" ">>
  /\ lastSubmit.password = <<" ">> \o ADMIN_LOGIN
  /\ logins = 1
  /\ view = "dashboard"

\* C23: a native share action whose share sheet is unavailable, or whose
\* invocation fails, copies the page URL to the clipboard and shows the
\* confirmation message (unless the clipboard itself refuses the write); one
\* whose share sheet succeeds copies nothing and shows no message.
C23_NativeShareFallback ==
  [][(lastShare' # lastShare /\ lastShare'.platform = "native")
       => LET e == lastShare'
          IN  IF e.shared = "resolved"
              THEN /\ e.copied = "none" /\ ~e.toasted
                   /\ clipboard' = clipboard
                   /\ toast' = toast
              ELSE e.copied # "rejected"
                     => /\ e.copied = "written" /\ e.toasted
                        /\ clipboard' = clipboard + 1
                        /\ toast' # NO_TOAST]_vars

\* C30: every toast shown by showToast is cleared in the end, and only by the
\* timer that was set when it was shown: the timer of an earlier toast never
\* clears a later one.  The step that clears a toast is the run of the timer
\* of the call of showToast that set it.
C30_ToastClearedByOwnTimer ==
  [][(toast # NO_TOAST /\ toast' = NO_TOAST)
       => toastTimers \ toastTimers' = {toastBy}]_vars

\* (w * 31 + c) mod 2^32, on the two halves of w
Times31Plus(w, c) ==
  LET lo == w.lo * 31 + c
  IN  [hi |-> (w.hi * 31 + lo \div HALF) % HALF, lo |-> lo % HALF]

\* the fold h := (h * 31 + code unit) mod 2^32, from 0, over the first k code
\* units of s
RECURSIVE FoldHash(_, _)
FoldHash(s, k) ==
  IF k = 0 THEN [hi |-> 0, lo |-> 0]
  ELSE Times31Plus(FoldHash(s, k - 1), charCode(s[k]))

\* the least 32-bit integer, -2^31
MinInt32 == (0 - (HALF \div 2)) * HALF

\* abs(h) mod n for a signed 32-bit h; abs(-2^31) is 2^31 = (HALF / 2) * HALF
AbsMod(h, n) ==
  IF h >= 0 THEN h % n
  ELSE IF h = MinInt32 THEN (((HALF \div 2) % n) * (HALF % n)) % n
  ELSE (0 - h) % n

BlankUrl(u) == \A k \in 1..Len(u) : IsSpace(u[k])

\* C24: for a post with a blank imageUrl the fallback image is the one at index
\* abs(h) mod listLength, h being the signed 32-bit value of the fold
\* h := (h * 31 + code unit) mod 2^32 over the id from 0, which the loop's
\* (h << 5) - h computes turn by turn.  The index lies in 0..listLength-1, also
\* for h = -2^31, is fixed by the id, and is 0 for the id "0" and the list of
\* four.  A post with a non-blank imageUrl gets that URL, unchanged.
C24_FallbackImage ==
  /\ imagePc = "loop" => hash = fromWord(FoldHash(idString, hashPos))
  /\ imagePc = "done" =>
       IF BlankUrl(imagePost.imageUrl)
       THEN LET id == IF imagePost.id = <<>> THEN <<"0">> ELSE imagePost.id
                h  == fromWord(FoldHash(id, Len(id)))
            IN  /\ postImage.from = "fallback"
                /\ postImage.index = AbsMod(h, Len(DEFAULT_BLOG_IMAGES))
                /\ postImage.index \in 0..(Len(DEFAULT_BLOG_IMAGES) - 1)
                /\ (imagePost.id = <<"0">> /\ Len(DEFAULT_BLOG_IMAGES) = 4)
                     => postImage.index = 0
       ELSE postImage = [from |-> "imageUrl", url |-> imagePost.imageUrl, index |-> 0]

\* a post without an image whose id hashes to -2^31
C24_Witness ==
  /\ imagePc = "done"
  /\ BlankUrl(imagePost.imageUrl)
  /\ hash = MinInt32
  /\ postImage.from = "fallback"
  /\ postImage.index = 0

\* the content a match was searched in: the field of the language, else the
\* base field
ShownContent(p) ==
  LET own == IF language = "fr" THEN p.content_fr ELSE p.content_en
  IN  IF own # <<>> THEN own ELSE p.content

\* where the query first occurs in a text, letter case apart (zero-based)
FirstAt(text, q) ==
  Min({k \in 0..(Len(text) - Len(q)) :
         \A j \in 1..Len(q) : toLowerChar(text[k + j]) = toLowerChar(q[j])})

\* each run of white space replaced by one space
RECURSIVE Collapse(_)
Collapse(s) ==
  IF s = <<>> THEN s
  ELSE IF ~(Head(s) \in {" ", "\n", "\r"}) THEN <<Head(s)>> \o Collapse(Tail(s))
  ELSE IF Len(s) > 1 /\ s[2] \in {" ", "\n", "\r"} THEN Collapse(Tail(s))
  ELSE <<" ">> \o Collapse(Tail(s))

\* the snippet of a match in the content, taken apart: the window of the
\* content it should show, whether the window is cut at either end, and the
\* text between the ellipses
SnippetParts(r) ==
  LET content == ShownContent(r.post)
      at  == FirstAt(content, searchQuery)
      lo  == IF at > SNIPPET_RADIUS THEN at - SNIPPET_RADIUS ELSE 0
      far == at + Len(searchQuery) + SNIPPET_RADIUS
      hi  == IF far < Len(content) THEN far ELSE Len(content)
      pre == IF lo > 0 THEN 3 ELSE 0
      suf == IF hi < Len(content) THEN 3 ELSE 0
  IN  [window |-> SubSeq(content, lo + 1, hi),
       cutBefore |-> lo > 0,
       cutAfter  |-> hi < Len(content),
       marked |-> /\ Len(r.snippet) >= pre + suf
                  /\ (pre = 3 => SubSeq(r.snippet, 1, 3) = ELLIPSIS)
                  /\ (suf = 3 => SubSeq(r.snippet, Len(r.snippet) - 2, Len(r.snippet))
                                   = ELLIPSIS),
       body |-> SubSeq(r.snippet, pre + 1, Len(r.snippet) - suf)]

\* C25: a match carries an excerpt exactly when its matched field is content.
\* The excerpt is the window of the content from 40 characters before the first
\* occurrence of the query, letter case apart, to 40 characters after its end,
\* clipped to the content, with white space and newlines collapsed to single
\* spaces, with an ellipsis before it exactly when the window does not start at
\* the start of the content and one after it exactly when it does not reach
\* the end.
C25_SnippetCollapsed ==
  \A k \in 1..Len(SearchResults) :
    LET r == SearchResults[k]
    IN  /\ (r.snippet # <<>>) <=> (r.type = "content")
        /\ r.type = "content"
             => /\ SnippetParts(r).marked
                /\ SnippetParts(r).body = Collapse(SnippetParts(r).window)

\* C26: in every reachable state 1 <= currentPage <= max(1, totalPages),
\* whatever page clicks, changes of query, order and language and fetch
\* completions came before, a poll that brings a shorter list while a later
\* page is selected included; so the page shown is empty only when the working
\* set is empty.
C26_PageInRange ==
  /\ 1 <= currentPage
  /\ currentPage <= Max({1, TotalPages})
  /\ Len(FilteredBlogs) = 0 => Len(AllFilteredBlogs) = 0

\* C27: whenever the view is article, selectedPostId is the id of a post of
\* the current list, so the article view has a post to render; also across
\* polls that replace the list while an article is open, lists whose ids were
\* made up as post-<index> included.
C27_ArticleHasPost ==
  view = "article" => \E k \in 1..Len(posts) : posts[k].id = selectedPostId

\* the calls of fetchData a step starts, and the ones it brings to their end
Started   == inflight' \ inflight
Completed == inflight \ inflight'

\* C29: a silent fetch (a poll tick, a refetch on window focus) never changes
\* isLoading; a fetch that is not silent sets isLoading when it starts and
\* clears it when it completes, on success and on every failure; the post list
\* and lastUpdated change only in the step in which a fetch completes with
\* success, both at once, and the list becomes the list of that payload.
C29_LoadingAndData ==
  [][/\ \A f \in Started \cup Completed : f.silent => isLoading' = isLoading
     /\ \A f \in Started : ~f.silent => isLoading'
     /\ \A f \in Completed : ~f.silent => ~isLoading'
     /\ (Started = {} /\ Completed = {}) => isLoading' = isLoading
     /\ (posts' # posts \/ lastUpdated' # lastUpdated)
          => /\ \E f \in Completed : lastFetch'.id = f.id
             /\ ~Failed(lastFetch'.outcome)
             /\ posts' = lastFetch'.payload
             /\ lastUpdated' = now' /\ lastUpdated' > lastUpdated
     /\ (lastFetch' # lastFetch /\ Failed(lastFetch'.outcome))
          => posts' = posts /\ lastUpdated' = lastUpdated]_vars

\* the poll completed with a list while the initial fetch was pending, then the
\* initial fetch failed: the spinner is gone and the list of the poll is kept
C29_Witness ==
  /\ lastFetch.id = 1 /\ Failed(lastFetch.outcome)
  /\ prevFetch.id = 2 /\ prevFetch.outcome = "ok"
  /\ ~isLoading
  /\ posts = prevFetch.payload /\ Len(posts) > 0
  /\ inflight = {}

\* a post made by handleGenerateAI
IsGenerated(p) == p.author = ADMIN /\ p.content = Generated.content

\* the step is the click on the delete button of the row of id
DeletedBy(id) == jobSeq' = jobSeq + 1 /\ posts' = onDelete(posts, id)

====
